---- MODULE Spec2Model ----
(***************************************************************************)
(* A model of sword-tui's parsing and reference-resolution layer:          *)
(* the canon table and alias resolver (data/canon.py), the diatheke output *)
(* normalizer and verse/word parser (backend/diatheke.py) and the          *)
(* cross-reference extractors (backend/crossref.py, backend/commentary.py).*)
(*                                                                         *)
(* A Python str is modelled as a sequence of one-character strings, so     *)
(* that lower(), strip(), replace(), split() and the regular expressions   *)
(* act on characters as they do in the program.  None is the empty         *)
(* sequence where the program holds an Optional[str] (it tests these for   *)
(* truth only, and None and "" are both false) and -1 where it holds an    *)
(* Optional[int] (the numbers it parses are never negative).               *)
(***************************************************************************)
EXTENDS Integers, Sequences, FiniteSets, TLC

VARIABLES
    fn,     \* the function of the program that was called last
    arg,    \* the argument(s) it was called with
    ret,    \* the value it returned
    crossref_backend,   \* the application's CrossRefBackend
    dictionary_backend, \* the application's DictionaryBackend
    pc,             \* where the _lookup_single in progress is
    diatheke_runs,  \* the diatheke processes it has run, with their outcomes
    tab_manager,    \* the application's TabManager
    jumplist,       \* a JumpList of its own
    bible_view,     \* a BibleView of its own
    app             \* the SwordApp, once started

vars == <<fn, arg, ret, crossref_backend, dictionary_backend, pc,
          diatheke_runs, tab_manager, jumplist, bible_view, app>>

\* the objects and frames that the cross-reference calls leave alone
other_objects == <<dictionary_backend, pc, diatheke_runs, tab_manager,
                   jumplist, bible_view, app>>

\* None for an Optional[str] and for an Optional[int]
NoneStr == <<>>
NoneInt == -1

-----------------------------------------------------------------------------
(* Characters and character classes (Python str methods, re classes).      *)

Digits == {"0", "1", "2", "3", "4", "5", "6", "7", "8", "9"}
DigitSeq == <<"0", "1", "2", "3", "4", "5", "6", "7", "8", "9">>
UpperSeq == <<"A", "B", "C", "D", "E", "F", "G", "H", "I", "J", "K", "L", "M",
              "N", "O", "P", "Q", "R", "S", "T", "U", "V", "W", "X", "Y", "Z">>
LowerSeq == <<"a", "b", "c", "d", "e", "f", "g", "h", "i", "j", "k", "l", "m",
              "n", "o", "p", "q", "r", "s", "t", "u", "v", "w", "x", "y", "z">>
UpperAscii == {UpperSeq[i] : i \in 1..Len(UpperSeq)}
LowerAscii == {LowerSeq[i] : i \in 1..Len(LowerSeq)}
\* [A-Za-z]
AsciiLetters == UpperAscii \cup LowerAscii
\* the letters outside ASCII that the canon table uses (already lower case)
AccentedLetters == {"ë", "ï", "ü"}
\* \s
WhiteSpace == {" ", "\t", "\n", "\r"}
\* \w (re is Unicode-aware for str patterns)
WordChars == AsciiLetters \cup AccentedLetters \cup Digits \cup {"_"}

\* a local variable: In applied to the value v, which is computed once,
\* before In is
Let(v, In(_)) == CASE v = v -> In(v)

\* str.lower() on one character
LowerChar(c) ==
    IF c \in UpperAscii
    THEN LowerSeq[CHOOSE i \in 1..Len(UpperSeq) : UpperSeq[i] = c]
    ELSE c

\* str.lower()
Lower(s) == [i \in 1..Len(s) |-> LowerChar(s[i])]

RECURSIVE LStripSet(_, _)
\* str.lstrip(chars)
LStripSet(s, cs) ==
    IF s # <<>> /\ Head(s) \in cs THEN LStripSet(Tail(s), cs) ELSE s

RECURSIVE RStripSet(_, _)
\* str.rstrip(chars)
RStripSet(s, cs) ==
    IF s # <<>> /\ s[Len(s)] \in cs
    THEN RStripSet(SubSeq(s, 1, Len(s) - 1), cs)
    ELSE s

\* str.strip()
Strip(s) == RStripSet(LStripSet(s, WhiteSpace), WhiteSpace)

\* str.replace(c, "") for a one-character c
Remove(s, c) == SelectSeq(s, LAMBDA x : x # c)

\* str.replace(c, d) for one-character c and d
Replace(s, c, d) == [i \in 1..Len(s) |-> IF s[i] = c THEN d ELSE s[i]]

SetMin(S) == CHOOSE x \in S : \A y \in S : x <= y
SetMax(S) == CHOOSE x \in S : \A y \in S : x >= y

\* str.startswith(p)
StartsWith(s, p) == Len(p) <= Len(s) /\ SubSeq(s, 1, Len(p)) = p

\* str.endswith(p)
EndsWith(s, p) ==
    Len(p) <= Len(s) /\ SubSeq(s, Len(s) - Len(p) + 1, Len(s)) = p

\* c in s
Contains(s, c) == \E i \in 1..Len(s) : s[i] = c

RECURSIVE Join(_, _)
\* sep.join(parts)
Join(parts, sep) ==
    IF parts = <<>> THEN <<>>
    ELSE IF Len(parts) = 1 THEN parts[1]
    ELSE parts[1] \o sep \o Join(Tail(parts), sep)

\* the k-th of the positions seps, from 1
NthOf(seps, k) == CHOOSE p \in seps : Cardinality({q \in seps : q < p}) = k - 1

\* the pieces of s between the characters of cs, empty pieces kept
SplitOn(s, cs) ==
    Let({i \in 1..Len(s) : s[i] \in cs} \cup {0, Len(s) + 1}, LAMBDA seps :
        [k \in 1..(Cardinality(seps) - 1) |->
            SubSeq(s, NthOf(seps, k) + 1, NthOf(seps, k + 1) - 1)])

\* str.split(c) for a one-character separator
SplitChar(s, c) == SplitOn(s, {c})

\* str.split(): the runs of non-whitespace
SplitWs(s) == SelectSeq(SplitOn(s, WhiteSpace), LAMBDA p : p # <<>>)

\* str.splitlines(): no piece for the end of a text that ends in a line break
SplitLines(s) ==
    Let(SplitOn(s, {"\n"}), LAMBDA pieces :
        IF pieces[Len(pieces)] = <<>>
        THEN SubSeq(pieces, 1, Len(pieces) - 1)
        ELSE pieces)

RECURSIVE ParseInt(_)
\* int(s) for a string of decimal digits
ParseInt(s) ==
    IF s = <<>> THEN 0
    ELSE 10 * ParseInt(SubSeq(s, 1, Len(s) - 1))
         + (CHOOSE d \in 0..9 : DigitSeq[d + 1] = s[Len(s)])

RECURSIVE IntToStr(_)
\* str(n) for n >= 0
IntToStr(n) ==
    IF n < 10 THEN <<DigitSeq[n + 1]>>
    ELSE Append(IntToStr(n \div 10), DigitSeq[(n % 10) + 1])

-----------------------------------------------------------------------------
(* Regular expressions (Python's re): a pattern is a sequence of nodes,    *)
(* matched by backtracking, leftmost alternative first, as re does.        *)

\* a character class [...], and a negated one [^...]
Cls(S) == [t |-> "cls", set |-> S, neg |-> FALSE]
NotCls(S) == [t |-> "cls", set |-> S, neg |-> TRUE]
\* a literal text, and one under re.IGNORECASE
Lit(w) == [t |-> "lit", w |-> w, ic |-> FALSE]
LitI(w) == [t |-> "lit", w |-> Lower(w), ic |-> TRUE]
\* c* and c+ (greedy), c+? and c*? (lazy) for a class c
Star(c) == [t |-> "rep", c |-> c, min |-> 0, greedy |-> TRUE]
Plus(c) == [t |-> "rep", c |-> c, min |-> 1, greedy |-> TRUE]
LazyStar(c) == [t |-> "rep", c |-> c, min |-> 0, greedy |-> FALSE]
LazyPlus(c) == [t |-> "rep", c |-> c, min |-> 1, greedy |-> FALSE]
\* (?:rs)? and the capturing group number n
Opt(rs) == [t |-> "opt", rs |-> rs]
Grp(n, rs) == [t |-> "grp", n |-> n, rs |-> rs]
\* ^ and $
Bol == [t |-> "bol"]
Eol == [t |-> "eol"]

ClsHas(c, ch) == IF c.neg THEN ch \notin c.set ELSE ch \in c.set

\* how many characters from position i on are in class c
RunLen(c, s, i) ==
    Let({j \in i..Len(s) : ~ClsHas(c, s[j])}, LAMBDA stops :
        IF stops = {} THEN Len(s) + 1 - i ELSE SetMin(stops) - i)

HasAt(s, i, w, ic) ==
    /\ i + Len(w) - 1 <= Len(s)
    /\ \A k \in 1..Len(w) :
          (IF ic THEN LowerChar(s[i + k - 1]) ELSE s[i + k - 1]) = w[k]

\* w in s
HasText(s, w) == \E i \in 1..Len(s) : HasAt(s, i, w, FALSE)

ReFail == [ok |-> FALSE]

RECURSIVE ReMatch(_, _, _, _)
\* the match of pattern rs at position i of s that backtracking finds first;
\* caps[n] is <<start, end>> of group n (end exclusive), <<0, 0>> if unset
ReMatch(rs, s, i, caps) ==
    IF rs = <<>> THEN [ok |-> TRUE, end |-> i, caps |-> caps]
    ELSE
    LET r == Head(rs)
        rest == Tail(rs)
    IN  CASE r.t = "cls" ->
                IF i <= Len(s) /\ ClsHas(r, s[i])
                THEN ReMatch(rest, s, i + 1, caps)
                ELSE ReFail
          [] r.t = "lit" ->
                IF HasAt(s, i, r.w, r.ic)
                THEN ReMatch(rest, s, i + Len(r.w), caps)
                ELSE ReFail
          [] r.t = "rep" ->
                Let(RunLen(r.c, s, i), LAMBDA n :
                    IF n = r.min THEN ReMatch(rest, s, i + n, caps)
                    ELSE
                    \* the repetition counts with which the rest matches
                    Let({k \in r.min..n : ReMatch(rest, s, i + k, caps).ok},
                        LAMBDA ks :
                            IF ks = {} THEN ReFail
                            ELSE IF r.greedy
                            THEN ReMatch(rest, s, i + SetMax(ks), caps)
                            ELSE ReMatch(rest, s, i + SetMin(ks), caps)))
          [] r.t = "opt" ->
                Let(ReMatch(r.rs \o rest, s, i, caps), LAMBDA a :
                    IF a.ok THEN a ELSE ReMatch(rest, s, i, caps))
          [] r.t = "grp" ->
                ReMatch(<<[t |-> "open", n |-> r.n]>> \o r.rs
                        \o <<[t |-> "close", n |-> r.n]>> \o rest, s, i, caps)
          [] r.t = "open" ->
                ReMatch(rest, s, i, [caps EXCEPT ![r.n] = <<i, 0>>])
          [] r.t = "close" ->
                ReMatch(rest, s, i, [caps EXCEPT ![r.n] = <<@[1], i>>])
          [] r.t = "bol" ->
                IF i = 1 THEN ReMatch(rest, s, i, caps) ELSE ReFail
          [] r.t = "eol" ->
                IF i = Len(s) + 1 \/ (i = Len(s) /\ s[i] = "\n")
                THEN ReMatch(rest, s, i, caps)
                ELSE ReFail

NoCaps(ng) == [n \in 1..ng |-> <<0, 0>>]

\* pattern.match(s): at the start of s
ReMatchAt(rs, ng, s, i) ==
    Let(ReMatch(rs, s, i, NoCaps(ng)), LAMBDA a :
        IF a.ok THEN [ok |-> TRUE, start |-> i, end |-> a.end, caps |-> a.caps]
        ELSE ReFail)

\* pattern.search(s, i): the leftmost match starting at i or later
ReSearch(rs, ng, s, i) ==
    Let({j \in i..(Len(s) + 1) : ReMatch(rs, s, j, NoCaps(ng)).ok},
        LAMBDA starts :
            IF starts = {} THEN ReFail
            ELSE ReMatchAt(rs, ng, s, SetMin(starts)))

RECURSIVE ReFindIter(_, _, _, _)
\* pattern.finditer(s): the successive non-overlapping matches; the search
\* resumes where a match ended, one further on after an empty match
ReFindIter(rs, ng, s, i) ==
    Let(ReSearch(rs, ng, s, i), LAMBDA a :
        IF ~a.ok THEN <<>>
        ELSE <<a>> \o ReFindIter(rs, ng, s,
                                 IF a.end = a.start THEN a.end + 1 ELSE a.end))

\* match.group(n)
Group(m, s, n) ==
    IF m.caps[n][1] = 0 THEN NoneStr
    ELSE SubSeq(s, m.caps[n][1], m.caps[n][2] - 1)

RECURSIVE SubFrom(_, _, _, _)
\* pattern.sub(repl, s) from position i on, for a pattern that matches no
\* empty text
SubFrom(rs, repl, s, i) ==
    Let(ReSearch(rs, 0, s, i), LAMBDA a :
        IF ~a.ok THEN SubSeq(s, i, Len(s))
        ELSE SubSeq(s, i, a.start - 1) \o repl \o SubFrom(rs, repl, s, a.end))

ReSub(rs, repl, s) == SubFrom(rs, repl, s, 1)

-----------------------------------------------------------------------------
(* data/canon.py: the canon table and the tables derived from it.          *)

CanonBook(name, abbr, aliases, chapters) ==
    [name |-> name, abbr |-> abbr, aliases |-> aliases, chapters |-> chapters]

_CANON_TABLE == <<
    CanonBook(<<"G", "e", "n", "e", "s", "i", "s">>, <<"G", "e", "n">>,
        << <<"g", "e", "n">>, <<"g", "e">>, <<"g", "n">>, <<"g", "e", "n", "e", "s", "i", "s">>, <<"1", "m", "o">>, <<"1", "m", "o", "s">> >>, 50),
    CanonBook(<<"E", "x", "o", "d", "u", "s">>, <<"E", "x">>,
        << <<"e", "x", "o">>, <<"e", "x">>, <<"e", "x", "o", "d", "u", "s">>, <<"2", "m", "o">>, <<"2", "m", "o", "s">> >>, 40),
    CanonBook(<<"L", "e", "v", "i", "t", "i", "c", "u", "s">>, <<"L", "e", "v">>,
        << <<"l", "e", "v">>, <<"l", "e">>, <<"l", "e", "v", "i", "t", "i", "c", "u", "s">>, <<"3", "m", "o">>, <<"3", "m", "o", "s">> >>, 27),
    CanonBook(<<"N", "u", "m", "e", "r", "i">>, <<"N", "u", "m">>,
        << <<"n", "u", "m">>, <<"n", "u">>, <<"n", "u", "m", "e", "r", "i">>, <<"n", "u", "m", "b", "e", "r", "s">>, <<"4", "m", "o">>, <<"4", "m", "o", "s">> >>, 36),
    CanonBook(<<"D", "e", "u", "t", "e", "r", "o", "n", "o", "m", "i", "u", "m">>, <<"D", "e", "u", "t">>,
        << <<"d", "e", "u", "t">>, <<"d", "e">>, <<"d", "t">>, <<"d", "e", "u", "t", "e", "r", "o", "n", "o", "m", "i", "u", "m">>, <<"d", "e", "u", "t", "e", "r", "o", "n", "o", "m", "y">>, <<"5", "m", "o">>, <<"5", "m", "o", "s">> >>, 34),
    CanonBook(<<"J", "o", "z", "u", "a">>, <<"J", "o", "z">>,
        << <<"j", "o", "z">>, <<"j", "o", "s">>, <<"j", "o", "s", "h", "u", "a">>, <<"j", "o", "z", "u", "a">> >>, 24),
    CanonBook(<<"R", "i", "c", "h", "t", "e", "r", "e", "n">>, <<"R", "i", "c", "h", "t">>,
        << <<"r", "i", "c", "h", "t">>, <<"r", "i">>, <<"r", "i", "c", "h", "t", "e", "r", "e", "n">>, <<"j", "u", "d", "g", "e", "s">>, <<"j", "u", "d", "g">> >>, 21),
    CanonBook(<<"R", "u", "t", "h">>, <<"R", "u", "t", "h">>,
        << <<"r", "u", "t", "h">>, <<"r", "u">>, <<"r", "t", "h">> >>, 4),
    CanonBook(<<"1", " ", "S", "a", "m", "u", "ë", "l">>, <<"1", "S", "a", "m">>,
        << <<"1", "s", "a", "m">>, <<"1", "s", "a">>, <<"1", "s", "a", "m", "u", "e", "l">>, <<"1", " ", "s", "a", "m", "u", "e", "l">> >>, 31),
    CanonBook(<<"2", " ", "S", "a", "m", "u", "ë", "l">>, <<"2", "S", "a", "m">>,
        << <<"2", "s", "a", "m">>, <<"2", "s", "a">>, <<"2", "s", "a", "m", "u", "e", "l">>, <<"2", " ", "s", "a", "m", "u", "e", "l">> >>, 24),
    CanonBook(<<"1", " ", "K", "o", "n", "i", "n", "g", "e", "n">>, <<"1", "K", "o", "n">>,
        << <<"1", "k", "o", "n">>, <<"1", "k", "i">>, <<"1", "k", "i", "n", "g", "s">>, <<"1", " ", "k", "o", "n", "i", "n", "g", "e", "n">>, <<"1", "k", "o", "n", "i", "n", "g", "e", "n">> >>, 22),
    CanonBook(<<"2", " ", "K", "o", "n", "i", "n", "g", "e", "n">>, <<"2", "K", "o", "n">>,
        << <<"2", "k", "o", "n">>, <<"2", "k", "i">>, <<"2", "k", "i", "n", "g", "s">>, <<"2", " ", "k", "o", "n", "i", "n", "g", "e", "n">>, <<"2", "k", "o", "n", "i", "n", "g", "e", "n">> >>, 25),
    CanonBook(<<"1", " ", "K", "r", "o", "n", "i", "e", "k", "e", "n">>, <<"1", "K", "r", "o", "n">>,
        << <<"1", "k", "r", "o", "n">>, <<"1", "c", "h", "r">>, <<"1", "c", "h", "r", "o", "n", "i", "c", "l", "e", "s">>, <<"1", " ", "k", "r", "o", "n", "i", "e", "k", "e", "n">>, <<"1", "k", "r", "o", "n", "i", "e", "k", "e", "n">> >>, 29),
    CanonBook(<<"2", " ", "K", "r", "o", "n", "i", "e", "k", "e", "n">>, <<"2", "K", "r", "o", "n">>,
        << <<"2", "k", "r", "o", "n">>, <<"2", "c", "h", "r">>, <<"2", "c", "h", "r", "o", "n", "i", "c", "l", "e", "s">>, <<"2", " ", "k", "r", "o", "n", "i", "e", "k", "e", "n">>, <<"2", "k", "r", "o", "n", "i", "e", "k", "e", "n">> >>, 36),
    CanonBook(<<"E", "z", "r", "a">>, <<"E", "z", "r", "a">>,
        << <<"e", "z", "r", "a">>, <<"e", "z", "r">> >>, 10),
    CanonBook(<<"N", "e", "h", "e", "m", "i", "a">>, <<"N", "e", "h">>,
        << <<"n", "e", "h">>, <<"n", "e">>, <<"n", "e", "h", "e", "m", "i", "a">>, <<"n", "e", "h", "e", "m", "i", "a", "h">> >>, 13),
    CanonBook(<<"E", "s", "t", "h", "e", "r">>, <<"E", "s", "t">>,
        << <<"e", "s", "t">>, <<"e", "s", "t", "h", "e", "r">> >>, 10),
    CanonBook(<<"J", "o", "b">>, <<"J", "o", "b">>,
        << <<"j", "o", "b">>, <<"j", "b">> >>, 42),
    CanonBook(<<"P", "s", "a", "l", "m", "e", "n">>, <<"P", "s">>,
        << <<"p", "s">>, <<"p", "s", "a">>, <<"p", "s", "a", "l", "m">>, <<"p", "s", "a", "l", "m", "e", "n">>, <<"p", "s", "a", "l", "m", "s">> >>, 150),
    CanonBook(<<"S", "p", "r", "e", "u", "k", "e", "n">>, <<"S", "p", "r">>,
        << <<"s", "p", "r">>, <<"p", "r">>, <<"p", "r", "o", "v">>, <<"s", "p", "r", "e", "u", "k", "e", "n">>, <<"p", "r", "o", "v", "e", "r", "b", "s">> >>, 31),
    CanonBook(<<"P", "r", "e", "d", "i", "k", "e", "r">>, <<"P", "r", "e", "d">>,
        << <<"p", "r", "e", "d">>, <<"e", "c">>, <<"e", "c", "c">>, <<"p", "r", "e", "d", "i", "k", "e", "r">>, <<"e", "c", "c", "l", "e", "s", "i", "a", "s", "t", "e", "s">> >>, 12),
    CanonBook(<<"H", "o", "o", "g", "l", "i", "e", "d">>, <<"H", "o", "o", "g", "l">>,
        << <<"h", "o", "o", "g", "l">>, <<"h", "l">>, <<"s", "o", "n", "g">>, <<"h", "o", "o", "g", "l", "i", "e", "d">>, <<"s", "o", "n", "g", "o", "f", "s", "o", "l", "o", "m", "o", "n">>, <<"c", "a", "n", "t", "i", "c", "l", "e", "s">> >>, 8),
    CanonBook(<<"J", "e", "s", "a", "j", "a">>, <<"J", "e", "s">>,
        << <<"j", "e", "s">>, <<"i", "s", "a">>, <<"j", "e", "s", "a", "j", "a">>, <<"i", "s", "a", "i", "a", "h">> >>, 66),
    CanonBook(<<"J", "e", "r", "e", "m", "i", "a">>, <<"J", "e", "r">>,
        << <<"j", "e", "r">>, <<"j", "e">>, <<"j", "e", "r", "e", "m", "i", "a">>, <<"j", "e", "r", "e", "m", "i", "a", "h">> >>, 52),
    CanonBook(<<"K", "l", "a", "a", "g", "l", "i", "e", "d", "e", "r", "e", "n">>, <<"K", "l", "a", "a", "g", "l">>,
        << <<"k", "l", "a", "a", "g", "l">>, <<"l", "a", "m">>, <<"k", "l", "a", "a", "g", "l", "i", "e", "d", "e", "r", "e", "n">>, <<"l", "a", "m", "e", "n", "t", "a", "t", "i", "o", "n", "s">> >>, 5),
    CanonBook(<<"E", "z", "e", "c", "h", "i", "ë", "l">>, <<"E", "z">>,
        << <<"e", "z">>, <<"e", "z", "e", "k">>, <<"e", "z", "e", "c", "h", "i", "e", "l">>, <<"e", "z", "e", "k", "i", "e", "l">> >>, 48),
    CanonBook(<<"D", "a", "n", "i", "ë", "l">>, <<"D", "a", "n">>,
        << <<"d", "a", "n">>, <<"d", "a">>, <<"d", "a", "n", "i", "e", "l">> >>, 12),
    CanonBook(<<"H", "o", "s", "e", "a">>, <<"H", "o", "s">>,
        << <<"h", "o", "s">>, <<"h", "o">>, <<"h", "o", "s", "e", "a">> >>, 14),
    CanonBook(<<"J", "o", "ë", "l">>, <<"J", "o", "ë", "l">>,
        << <<"j", "o", "e", "l">>, <<"j", "o", "e">>, <<"j", "l">> >>, 3),
    CanonBook(<<"A", "m", "o", "s">>, <<"A", "m">>,
        << <<"a", "m">>, <<"a", "m", "o", "s">> >>, 9),
    CanonBook(<<"O", "b", "a", "d", "j", "a">>, <<"O", "b">>,
        << <<"o", "b">>, <<"o", "b", "a", "d">>, <<"o", "b", "a", "d", "j", "a">>, <<"o", "b", "a", "d", "i", "a", "h">> >>, 1),
    CanonBook(<<"J", "o", "n", "a">>, <<"J", "o", "n", "a">>,
        << <<"j", "o", "n", "a">>, <<"j", "o", "n">>, <<"j", "o", "n", "a", "h">> >>, 4),
    CanonBook(<<"M", "i", "c", "h", "a">>, <<"M", "i">>,
        << <<"m", "i">>, <<"m", "i", "c">>, <<"m", "i", "c", "h", "a">>, <<"m", "i", "c", "a", "h">> >>, 7),
    CanonBook(<<"N", "a", "h", "u", "m">>, <<"N", "a", "h">>,
        << <<"n", "a", "h">>, <<"n", "a">>, <<"n", "a", "h", "u", "m">> >>, 3),
    CanonBook(<<"H", "a", "b", "a", "k", "u", "k">>, <<"H", "a", "b">>,
        << <<"h", "a", "b">>, <<"h", "a", "b", "a", "k", "u", "k">>, <<"h", "a", "b", "a", "k", "k", "u", "k">> >>, 3),
    CanonBook(<<"Z", "e", "f", "a", "n", "j", "a">>, <<"Z", "e", "f">>,
        << <<"z", "e", "f">>, <<"z", "e", "p", "h">>, <<"z", "e", "f", "a", "n", "j", "a">>, <<"z", "e", "p", "h", "a", "n", "i", "a", "h">> >>, 3),
    CanonBook(<<"H", "a", "g", "g", "a", "ï">>, <<"H", "a", "g">>,
        << <<"h", "a", "g">>, <<"h", "a", "g", "g", "a", "i">> >>, 2),
    CanonBook(<<"Z", "a", "c", "h", "a", "r", "i", "a">>, <<"Z", "a", "c", "h">>,
        << <<"z", "a", "c", "h">>, <<"z", "e", "c">>, <<"z", "a", "c", "h", "a", "r", "i", "a">>, <<"z", "e", "c", "h", "a", "r", "i", "a", "h">> >>, 14),
    CanonBook(<<"M", "a", "l", "e", "a", "c", "h", "i">>, <<"M", "a", "l">>,
        << <<"m", "a", "l">>, <<"m", "a", "l", "e", "a", "c", "h", "i">>, <<"m", "a", "l", "a", "c", "h", "i">> >>, 4),
    CanonBook(<<"M", "a", "t", "t", "h", "e", "ü", "s">>, <<"M", "a", "t", "t">>,
        << <<"m", "a", "t", "t">>, <<"m", "t">>, <<"m", "a", "t", "t", "h", "e", "u", "s">>, <<"m", "a", "t", "t", "h", "e", "w">> >>, 28),
    CanonBook(<<"M", "a", "r", "k", "u", "s">>, <<"M", "a", "r", "k">>,
        << <<"m", "a", "r", "k">>, <<"m", "k">>, <<"m", "a", "r", "c", "u", "s">>, <<"m", "a", "r", "k", "u", "s">> >>, 16),
    CanonBook(<<"L", "u", "k", "a", "s">>, <<"L", "u", "k">>,
        << <<"l", "u", "k">>, <<"l", "k">>, <<"l", "u", "k", "a", "s">>, <<"l", "u", "k", "e">> >>, 24),
    CanonBook(<<"J", "o", "h", "a", "n", "n", "e", "s">>, <<"J", "o", "h">>,
        << <<"j", "o", "h">>, <<"j", "n">>, <<"j", "o", "h", "a", "n", "n", "e", "s">>, <<"j", "o", "h", "n">> >>, 21),
    CanonBook(<<"H", "a", "n", "d", "e", "l", "i", "n", "g", "e", "n">>, <<"H", "a", "n", "d">>,
        << <<"h", "a", "n", "d">>, <<"a", "c", "t", "s">>, <<"h", "a", "n", "d", "e", "l", "i", "n", "g", "e", "n">>, <<"a", "c", "t", "s", "o", "f", "t", "h", "e", "a", "p", "o", "s", "t", "l", "e", "s">> >>, 28),
    CanonBook(<<"R", "o", "m", "e", "i", "n", "e", "n">>, <<"R", "o", "m">>,
        << <<"r", "o", "m">>, <<"r", "o">>, <<"r", "o", "m", "e", "i", "n", "e", "n">>, <<"r", "o", "m", "a", "n", "s">> >>, 16),
    CanonBook(<<"1", " ", "K", "o", "r", "i", "n", "t", "h", "e">>, <<"1", "K", "o", "r">>,
        << <<"1", "k", "o", "r">>, <<"1", "c", "o">>, <<"1", "c", "o", "r">>, <<"1", " ", "k", "o", "r", "i", "n", "t", "h", "e">>, <<"1", "k", "o", "r", "i", "n", "t", "h", "e">>, <<"1", "c", "o", "r", "i", "n", "t", "h", "i", "a", "n", "s">> >>, 16),
    CanonBook(<<"2", " ", "K", "o", "r", "i", "n", "t", "h", "e">>, <<"2", "K", "o", "r">>,
        << <<"2", "k", "o", "r">>, <<"2", "c", "o">>, <<"2", "c", "o", "r">>, <<"2", " ", "k", "o", "r", "i", "n", "t", "h", "e">>, <<"2", "k", "o", "r", "i", "n", "t", "h", "e">>, <<"2", "c", "o", "r", "i", "n", "t", "h", "i", "a", "n", "s">> >>, 13),
    CanonBook(<<"G", "a", "l", "a", "t", "e", "n">>, <<"G", "a", "l">>,
        << <<"g", "a", "l">>, <<"g", "a">>, <<"g", "a", "l", "a", "t", "e", "n">>, <<"g", "a", "l", "a", "t", "i", "a", "n", "s">> >>, 6),
    CanonBook(<<"E", "f", "e", "z", "e">>, <<"E", "f">>,
        << <<"e", "f">>, <<"e", "p", "h">>, <<"e", "f", "e", "z", "e">>, <<"e", "p", "h", "e", "s", "i", "a", "n", "s">> >>, 6),
    CanonBook(<<"F", "i", "l", "i", "p", "p", "e", "n", "z", "e", "n">>, <<"F", "i", "l">>,
        << <<"f", "i", "l">>, <<"p", "h", "p">>, <<"f", "i", "l", "i", "p", "p", "e", "n", "z", "e", "n">>, <<"p", "h", "i", "l", "i", "p", "p", "i", "a", "n", "s">> >>, 4),
    CanonBook(<<"K", "o", "l", "o", "s", "s", "e", "n", "z", "e", "n">>, <<"K", "o", "l">>,
        << <<"k", "o", "l">>, <<"c", "o", "l">>, <<"k", "o", "l", "o", "s", "s", "e", "n", "z", "e", "n">>, <<"c", "o", "l", "o", "s", "s", "i", "a", "n", "s">> >>, 4),
    CanonBook(<<"1", " ", "T", "h", "e", "s", "s", "a", "l", "o", "n", "i", "c", "e", "n", "z", "e", "n">>, <<"1", "T", "h", "e", "s", "s">>,
        << <<"1", "t", "h", "e", "s", "s">>, <<"1", "t", "h">>, <<"1", " ", "t", "h", "e", "s", "s", "a", "l", "o", "n", "i", "c", "e", "n", "z", "e", "n">>, <<"1", "t", "h", "e", "s", "s", "a", "l", "o", "n", "i", "c", "e", "n", "z", "e", "n">>, <<"1", "t", "h", "e", "s", "s", "a", "l", "o", "n", "i", "a", "n", "s">> >>, 5),
    CanonBook(<<"2", " ", "T", "h", "e", "s", "s", "a", "l", "o", "n", "i", "c", "e", "n", "z", "e", "n">>, <<"2", "T", "h", "e", "s", "s">>,
        << <<"2", "t", "h", "e", "s", "s">>, <<"2", "t", "h">>, <<"2", " ", "t", "h", "e", "s", "s", "a", "l", "o", "n", "i", "c", "e", "n", "z", "e", "n">>, <<"2", "t", "h", "e", "s", "s", "a", "l", "o", "n", "i", "c", "e", "n", "z", "e", "n">>, <<"2", "t", "h", "e", "s", "s", "a", "l", "o", "n", "i", "a", "n", "s">> >>, 3),
    CanonBook(<<"1", " ", "T", "i", "m", "o", "t", "h", "e", "ü", "s">>, <<"1", "T", "i", "m">>,
        << <<"1", "t", "i", "m">>, <<"1", "t", "i">>, <<"1", " ", "t", "i", "m", "o", "t", "h", "e", "u", "s">>, <<"1", "t", "i", "m", "o", "t", "h", "e", "u", "s">>, <<"1", "t", "i", "m", "o", "t", "h", "y">> >>, 6),
    CanonBook(<<"2", " ", "T", "i", "m", "o", "t", "h", "e", "ü", "s">>, <<"2", "T", "i", "m">>,
        << <<"2", "t", "i", "m">>, <<"2", "t", "i">>, <<"2", " ", "t", "i", "m", "o", "t", "h", "e", "u", "s">>, <<"2", "t", "i", "m", "o", "t", "h", "e", "u", "s">>, <<"2", "t", "i", "m", "o", "t", "h", "y">> >>, 4),
    CanonBook(<<"T", "i", "t", "u", "s">>, <<"T", "i", "t">>,
        << <<"t", "i", "t">>, <<"t", "i", "t", "u", "s">> >>, 3),
    CanonBook(<<"F", "i", "l", "e", "m", "o", "n">>, <<"F", "i", "l", "e", "m">>,
        << <<"f", "i", "l", "e", "m">>, <<"p", "h", "m">>, <<"f", "i", "l", "e", "m", "o", "n">>, <<"p", "h", "i", "l", "e", "m", "o", "n">> >>, 1),
    CanonBook(<<"H", "e", "b", "r", "e", "e", "ë", "n">>, <<"H", "e", "b">>,
        << <<"h", "e", "b">>, <<"h", "e", "b", "r", "e", "e", "e", "n">>, <<"h", "e", "b", "r", "e", "w", "s">> >>, 13),
    CanonBook(<<"J", "a", "k", "o", "b", "u", "s">>, <<"J", "a", "k">>,
        << <<"j", "a", "k">>, <<"j", "a", "s">>, <<"j", "a", "k", "o", "b", "u", "s">>, <<"j", "a", "m", "e", "s">> >>, 5),
    CanonBook(<<"1", " ", "P", "e", "t", "r", "u", "s">>, <<"1", "P", "e", "t">>,
        << <<"1", "p", "e", "t">>, <<"1", "p", "e">>, <<"1", " ", "p", "e", "t", "r", "u", "s">>, <<"1", "p", "e", "t", "r", "u", "s">>, <<"1", "p", "e", "t", "e", "r">> >>, 5),
    CanonBook(<<"2", " ", "P", "e", "t", "r", "u", "s">>, <<"2", "P", "e", "t">>,
        << <<"2", "p", "e", "t">>, <<"2", "p", "e">>, <<"2", " ", "p", "e", "t", "r", "u", "s">>, <<"2", "p", "e", "t", "r", "u", "s">>, <<"2", "p", "e", "t", "e", "r">> >>, 3),
    CanonBook(<<"1", " ", "J", "o", "h", "a", "n", "n", "e", "s">>, <<"1", "J", "o", "h">>,
        << <<"1", "j", "o", "h">>, <<"1", "j", "n">>, <<"1", " ", "j", "o", "h", "a", "n", "n", "e", "s">>, <<"1", "j", "o", "h", "a", "n", "n", "e", "s">>, <<"1", "j", "o", "h", "n">> >>, 5),
    CanonBook(<<"2", " ", "J", "o", "h", "a", "n", "n", "e", "s">>, <<"2", "J", "o", "h">>,
        << <<"2", "j", "o", "h">>, <<"2", "j", "n">>, <<"2", " ", "j", "o", "h", "a", "n", "n", "e", "s">>, <<"2", "j", "o", "h", "a", "n", "n", "e", "s">>, <<"2", "j", "o", "h", "n">> >>, 1),
    CanonBook(<<"3", " ", "J", "o", "h", "a", "n", "n", "e", "s">>, <<"3", "J", "o", "h">>,
        << <<"3", "j", "o", "h">>, <<"3", "j", "n">>, <<"3", " ", "j", "o", "h", "a", "n", "n", "e", "s">>, <<"3", "j", "o", "h", "a", "n", "n", "e", "s">>, <<"3", "j", "o", "h", "n">> >>, 1),
    CanonBook(<<"J", "u", "d", "a", "s">>, <<"J", "u", "d">>,
        << <<"j", "u", "d">>, <<"j", "u", "d", "e">>, <<"j", "u", "d", "a", "s">> >>, 1),
    CanonBook(<<"O", "p", "e", "n", "b", "a", "r", "i", "n", "g">>, <<"O", "p", "e", "n", "b">>,
        << <<"o", "p", "e", "n", "b">>, <<"r", "e", "v">>, <<"o", "p", "e", "n", "b", "a", "r", "i", "n", "g">>, <<"r", "e", "v", "e", "l", "a", "t", "i", "o", "n">>, <<"a", "p", "o", "c", "a", "l", "y", "p", "s", "e">> >>, 22)
>>

\* Diatheke uses English book names: <<canonical name, token>>
DIATHEKE_TOKENS == <<
    <<<<"G", "e", "n", "e", "s", "i", "s">>, <<"G", "e", "n", "e", "s", "i", "s">>>>,
    <<<<"E", "x", "o", "d", "u", "s">>, <<"E", "x", "o", "d", "u", "s">>>>,
    <<<<"L", "e", "v", "i", "t", "i", "c", "u", "s">>, <<"L", "e", "v", "i", "t", "i", "c", "u", "s">>>>,
    <<<<"N", "u", "m", "e", "r", "i">>, <<"N", "u", "m", "b", "e", "r", "s">>>>,
    <<<<"D", "e", "u", "t", "e", "r", "o", "n", "o", "m", "i", "u", "m">>, <<"D", "e", "u", "t", "e", "r", "o", "n", "o", "m", "y">>>>,
    <<<<"J", "o", "z", "u", "a">>, <<"J", "o", "s", "h", "u", "a">>>>,
    <<<<"R", "i", "c", "h", "t", "e", "r", "e", "n">>, <<"J", "u", "d", "g", "e", "s">>>>,
    <<<<"R", "u", "t", "h">>, <<"R", "u", "t", "h">>>>,
    <<<<"1", " ", "S", "a", "m", "u", "ë", "l">>, <<"1", "S", "a", "m", "u", "e", "l">>>>,
    <<<<"2", " ", "S", "a", "m", "u", "ë", "l">>, <<"2", "S", "a", "m", "u", "e", "l">>>>,
    <<<<"1", " ", "K", "o", "n", "i", "n", "g", "e", "n">>, <<"1", "K", "i", "n", "g", "s">>>>,
    <<<<"2", " ", "K", "o", "n", "i", "n", "g", "e", "n">>, <<"2", "K", "i", "n", "g", "s">>>>,
    <<<<"1", " ", "K", "r", "o", "n", "i", "e", "k", "e", "n">>, <<"1", "C", "h", "r", "o", "n", "i", "c", "l", "e", "s">>>>,
    <<<<"2", " ", "K", "r", "o", "n", "i", "e", "k", "e", "n">>, <<"2", "C", "h", "r", "o", "n", "i", "c", "l", "e", "s">>>>,
    <<<<"E", "z", "r", "a">>, <<"E", "z", "r", "a">>>>,
    <<<<"N", "e", "h", "e", "m", "i", "a">>, <<"N", "e", "h", "e", "m", "i", "a", "h">>>>,
    <<<<"E", "s", "t", "h", "e", "r">>, <<"E", "s", "t", "h", "e", "r">>>>,
    <<<<"J", "o", "b">>, <<"J", "o", "b">>>>,
    <<<<"P", "s", "a", "l", "m", "e", "n">>, <<"P", "s", "a", "l", "m", "s">>>>,
    <<<<"S", "p", "r", "e", "u", "k", "e", "n">>, <<"P", "r", "o", "v", "e", "r", "b", "s">>>>,
    <<<<"P", "r", "e", "d", "i", "k", "e", "r">>, <<"E", "c", "c", "l", "e", "s", "i", "a", "s", "t", "e", "s">>>>,
    <<<<"H", "o", "o", "g", "l", "i", "e", "d">>, <<"S", "o", "n", "g", " ", "o", "f", " ", "S", "o", "l", "o", "m", "o", "n">>>>,
    <<<<"J", "e", "s", "a", "j", "a">>, <<"I", "s", "a", "i", "a", "h">>>>,
    <<<<"J", "e", "r", "e", "m", "i", "a">>, <<"J", "e", "r", "e", "m", "i", "a", "h">>>>,
    <<<<"K", "l", "a", "a", "g", "l", "i", "e", "d", "e", "r", "e", "n">>, <<"L", "a", "m", "e", "n", "t", "a", "t", "i", "o", "n", "s">>>>,
    <<<<"E", "z", "e", "c", "h", "i", "ë", "l">>, <<"E", "z", "e", "k", "i", "e", "l">>>>,
    <<<<"D", "a", "n", "i", "ë", "l">>, <<"D", "a", "n", "i", "e", "l">>>>,
    <<<<"H", "o", "s", "e", "a">>, <<"H", "o", "s", "e", "a">>>>,
    <<<<"J", "o", "ë", "l">>, <<"J", "o", "e", "l">>>>,
    <<<<"A", "m", "o", "s">>, <<"A", "m", "o", "s">>>>,
    <<<<"O", "b", "a", "d", "j", "a">>, <<"O", "b", "a", "d", "i", "a", "h">>>>,
    <<<<"J", "o", "n", "a">>, <<"J", "o", "n", "a", "h">>>>,
    <<<<"M", "i", "c", "h", "a">>, <<"M", "i", "c", "a", "h">>>>,
    <<<<"N", "a", "h", "u", "m">>, <<"N", "a", "h", "u", "m">>>>,
    <<<<"H", "a", "b", "a", "k", "u", "k">>, <<"H", "a", "b", "a", "k", "k", "u", "k">>>>,
    <<<<"Z", "e", "f", "a", "n", "j", "a">>, <<"Z", "e", "p", "h", "a", "n", "i", "a", "h">>>>,
    <<<<"H", "a", "g", "g", "a", "ï">>, <<"H", "a", "g", "g", "a", "i">>>>,
    <<<<"Z", "a", "c", "h", "a", "r", "i", "a">>, <<"Z", "e", "c", "h", "a", "r", "i", "a", "h">>>>,
    <<<<"M", "a", "l", "e", "a", "c", "h", "i">>, <<"M", "a", "l", "a", "c", "h", "i">>>>,
    <<<<"M", "a", "t", "t", "h", "e", "ü", "s">>, <<"M", "a", "t", "t", "h", "e", "w">>>>,
    <<<<"M", "a", "r", "k", "u", "s">>, <<"M", "a", "r", "k">>>>,
    <<<<"L", "u", "k", "a", "s">>, <<"L", "u", "k", "e">>>>,
    <<<<"J", "o", "h", "a", "n", "n", "e", "s">>, <<"J", "o", "h", "n">>>>,
    <<<<"H", "a", "n", "d", "e", "l", "i", "n", "g", "e", "n">>, <<"A", "c", "t", "s">>>>,
    <<<<"R", "o", "m", "e", "i", "n", "e", "n">>, <<"R", "o", "m", "a", "n", "s">>>>,
    <<<<"1", " ", "K", "o", "r", "i", "n", "t", "h", "e">>, <<"1", "C", "o", "r", "i", "n", "t", "h", "i", "a", "n", "s">>>>,
    <<<<"2", " ", "K", "o", "r", "i", "n", "t", "h", "e">>, <<"2", "C", "o", "r", "i", "n", "t", "h", "i", "a", "n", "s">>>>,
    <<<<"G", "a", "l", "a", "t", "e", "n">>, <<"G", "a", "l", "a", "t", "i", "a", "n", "s">>>>,
    <<<<"E", "f", "e", "z", "e">>, <<"E", "p", "h", "e", "s", "i", "a", "n", "s">>>>,
    <<<<"F", "i", "l", "i", "p", "p", "e", "n", "z", "e", "n">>, <<"P", "h", "i", "l", "i", "p", "p", "i", "a", "n", "s">>>>,
    <<<<"K", "o", "l", "o", "s", "s", "e", "n", "z", "e", "n">>, <<"C", "o", "l", "o", "s", "s", "i", "a", "n", "s">>>>,
    <<<<"1", " ", "T", "h", "e", "s", "s", "a", "l", "o", "n", "i", "c", "e", "n", "z", "e", "n">>, <<"1", "T", "h", "e", "s", "s", "a", "l", "o", "n", "i", "a", "n", "s">>>>,
    <<<<"2", " ", "T", "h", "e", "s", "s", "a", "l", "o", "n", "i", "c", "e", "n", "z", "e", "n">>, <<"2", "T", "h", "e", "s", "s", "a", "l", "o", "n", "i", "a", "n", "s">>>>,
    <<<<"1", " ", "T", "i", "m", "o", "t", "h", "e", "ü", "s">>, <<"1", "T", "i", "m", "o", "t", "h", "y">>>>,
    <<<<"2", " ", "T", "i", "m", "o", "t", "h", "e", "ü", "s">>, <<"2", "T", "i", "m", "o", "t", "h", "y">>>>,
    <<<<"T", "i", "t", "u", "s">>, <<"T", "i", "t", "u", "s">>>>,
    <<<<"F", "i", "l", "e", "m", "o", "n">>, <<"P", "h", "i", "l", "e", "m", "o", "n">>>>,
    <<<<"H", "e", "b", "r", "e", "e", "ë", "n">>, <<"H", "e", "b", "r", "e", "w", "s">>>>,
    <<<<"J", "a", "k", "o", "b", "u", "s">>, <<"J", "a", "m", "e", "s">>>>,
    <<<<"1", " ", "P", "e", "t", "r", "u", "s">>, <<"1", "P", "e", "t", "e", "r">>>>,
    <<<<"2", " ", "P", "e", "t", "r", "u", "s">>, <<"2", "P", "e", "t", "e", "r">>>>,
    <<<<"1", " ", "J", "o", "h", "a", "n", "n", "e", "s">>, <<"1", "J", "o", "h", "n">>>>,
    <<<<"2", " ", "J", "o", "h", "a", "n", "n", "e", "s">>, <<"2", "J", "o", "h", "n">>>>,
    <<<<"3", " ", "J", "o", "h", "a", "n", "n", "e", "s">>, <<"3", "J", "o", "h", "n">>>>,
    <<<<"J", "u", "d", "a", "s">>, <<"J", "u", "d", "e">>>>,
    <<<<"O", "p", "e", "n", "b", "a", "r", "i", "n", "g">>, <<"R", "e", "v", "e", "l", "a", "t", "i", "o", "n">>>>
>>

\* a dict built by assigning the items in order: the last value given to a
\* key is the one it holds
DictOf(items) ==
    [k \in {items[i][1] : i \in 1..Len(items)} |->
        items[CHOOSE i \in 1..Len(items) :
                /\ items[i][1] = k
                /\ \A j \in (i + 1)..Len(items) : items[j][1] # k][2]]

\* dict.get(k), None when absent
DictGet(d, k) == IF k \in DOMAIN d THEN d[k] ELSE NoneStr

\* Book order list
BOOK_ORDER ==
    Let(_CANON_TABLE, LAMBDA table : [i \in DOMAIN table |-> table[i].name])

RECURSIVE AliasItems(_)
\* the assignments the loop over the books of the canon table makes
AliasItems(books) ==
    IF books = <<>> THEN <<>>
    ELSE Let(Head(books), LAMBDA book :
             <<<<Lower(book.name), book.name>>,
               <<Lower(book.abbr), book.name>>>>
             \o [k \in 1..Len(book.aliases) |->
                    <<Lower(book.aliases[k]), book.name>>])
         \o AliasItems(Tail(books))

\* Build alias map
_ALIAS_MAP == DictOf(AliasItems(_CANON_TABLE))

\* Reverse mapping for parsing diatheke output
DIATHEKE_TO_CANON ==
    Let(DIATHEKE_TOKENS, LAMBDA tokens :
        DictOf([i \in DOMAIN tokens |-> <<tokens[i][2], tokens[i][1]>>]))

\* list.index(x), from 0; -1 when x is absent
IndexOf(list, x) ==
    IF \E i \in DOMAIN list : list[i] = x
    THEN (CHOOSE i \in DOMAIN list : list[i] = x) - 1
    ELSE -1

\* Return the index of a book in the canon (0-based), -1 if absent
book_index(name) == IndexOf(BOOK_ORDER, name)

\* Return the diatheke-compatible book name
diatheke_token(name) ==
    Let(DictGet(DictOf(DIATHEKE_TOKENS), name), LAMBDA token :
        IF token # NoneStr THEN token
        ELSE Let(book_index(name), LAMBDA idx :
                 IF idx >= 0 THEN _CANON_TABLE[idx + 1].abbr ELSE name))

\* candidates.sort(); candidates[0][1] of the fuzzy prefix match: the name
\* with the lowest index among the names of the keys of alias_map that start
\* with normalized; None when there is none
FuzzyMatch(alias_map, order, normalized) ==
    Let({<<IndexOf(order, alias_map[key]), alias_map[key]>> :
            key \in {k \in DOMAIN alias_map : StartsWith(k, normalized)}},
        LAMBDA candidates :
            Let({c \in candidates : c[1] >= 0}, LAMBDA valid :
                IF valid # {}
                THEN (CHOOSE c \in valid : \A d \in valid : c[1] <= d[1])[2]
                ELSE NoneStr))

\* the exact matches of resolve_alias: the token in the alias map, the
\* normalized token in the alias map, the lower-cased name that equals the
\* token; None when there is none
ExactMatch(alias_map, order, token, normalized) ==
    IF token \in DOMAIN alias_map THEN alias_map[token]
    ELSE IF normalized \in DOMAIN alias_map THEN alias_map[normalized]
    \* Exact name match (case-insensitive)
    ELSE IF \E i \in DOMAIN order : Lower(order[i]) = token
    THEN order[CHOOSE i \in DOMAIN order : Lower(order[i]) = token]
    ELSE NoneStr

\* resolve_alias from the token on: exact match, then fuzzy prefix matching
ResolveToken(alias_map, order, token, normalized, fuzzy) ==
    Let(ExactMatch(alias_map, order, token, normalized), LAMBDA exact :
        IF exact # NoneStr THEN exact
        ELSE IF fuzzy THEN FuzzyMatch(alias_map, order, normalized)
        ELSE NoneStr)

\* token.replace(".", "").replace(" ", "")
Normalized(token) == Remove(Remove(token, "."), " ")

\* the mutation of resolve_alias that forgets .lower()
resolve_alias_no_lower(alias, fuzzy) ==
    IF alias = <<>> THEN NoneStr
    ELSE Let(Strip(alias), LAMBDA token :
             ResolveToken(_ALIAS_MAP, BOOK_ORDER, token, Normalized(token),
                          fuzzy))

\* Resolve a book alias to the canonical name
resolve_alias(alias, fuzzy) ==
    IF alias = <<>> THEN NoneStr
    ELSE Let(Lower(Strip(alias)), LAMBDA token :
             ResolveToken(_ALIAS_MAP, BOOK_ORDER, token, Normalized(token),
                          fuzzy))

-----------------------------------------------------------------------------
(* html.unescape, for the named character references the inputs can spell  *)
(* (no numeric reference: the inputs hold no "#").                         *)

\* html.entities.html5, the entries for amp, lt, gt and quot
Html5 ==
    DictOf(<< <<<<"a", "m", "p", ";">>, <<"&">>>>, <<<<"a", "m", "p">>, <<"&">>>>,
              <<<<"l", "t", ";">>, <<"<">>>>, <<<<"l", "t">>, <<"<">>>>,
              <<<<"g", "t", ";">>, <<">">>>>, <<<<"g", "t">>, <<">">>>>,
              <<<<"q", "u", "o", "t", ";">>, <<"\"">>>>,
              <<<<"q", "u", "o", "t">>, <<"\"">>>> >>)

\* [^\t\n\f <&#;]
CharrefName == NotCls({"\t", "\n", " ", "<", "&", "#", ";"})

RECURSIVE LongestEntityPrefix(_, _)
\* for x in range(len(s)-1, 1, -1): if s[:x] in html5: return x; 0 if none
LongestEntityPrefix(s, x) ==
    IF x <= 1 THEN 0
    ELSE IF SubSeq(s, 1, x) \in DOMAIN Html5 THEN x
    ELSE LongestEntityPrefix(s, x - 1)

\* html._replace_charref, for the text s that follows the "&"
replace_charref(s) ==
    Let(Html5, LAMBDA html5 :
        IF s \in DOMAIN html5 THEN html5[s]
        ELSE Let(LongestEntityPrefix(s, Len(s) - 1), LAMBDA x :
                 IF x > 0
                 THEN html5[SubSeq(s, 1, x)] \o SubSeq(s, x + 1, Len(s))
                 ELSE <<"&">> \o s))

RECURSIVE UnescapeFrom(_, _)
\* html.unescape(s), from position i on: each "&" followed by one to 32
\* name characters and an optional ";" is replaced
UnescapeFrom(s, i) ==
    Let({j \in i..Len(s) : s[j] = "&"}, LAMBDA amps :
        IF amps = {} THEN SubSeq(s, i, Len(s))
        ELSE
        Let(SetMin(amps), LAMBDA a :
        Let(RunLen(CharrefName, s, a + 1), LAMBDA run :
        Let(IF run > 32 THEN 32 ELSE run, LAMBDA n :
        Let(IF a + n + 1 <= Len(s) /\ s[a + n + 1] = ";"
            THEN a + n + 1 ELSE a + n, LAMBDA e :
            SubSeq(s, i, a - 1)
            \o (IF n = 0 THEN <<"&">>
                ELSE replace_charref(SubSeq(s, a + 1, e)))
            \o UnescapeFrom(s, e + 1))))))

html_unescape(s) == IF Contains(s, "&") THEN UnescapeFrom(s, 1) ELSE s

\* list[:limit]
SliceTo(list, limit) ==
    SubSeq(list, 1,
           IF limit >= Len(list) THEN Len(list)
           ELSE IF limit >= 0 THEN limit
           ELSE IF Len(list) + limit >= 0 THEN Len(list) + limit
           ELSE 0)

\* search_books: the lower-cased name, abbreviation and aliases of a book
Haystack(book) ==
    {Lower(book.name), Lower(book.abbr)}
    \cup {Lower(book.aliases[k]) : k \in 1..Len(book.aliases)}

\* the priority of a book: 0 for a prefix match, 1 for a substring match,
\* -1 for no match
Priority(haystack, needle) ==
    IF \E h \in haystack : StartsWith(h, needle) THEN 0
    ELSE IF \E h \in haystack : HasText(h, needle) THEN 1
    ELSE -1

\* matches, with the sort key of each: (priority, book_index, book)
Matches(table, needle) ==
    SelectSeq([i \in DOMAIN table |->
                  <<Priority(Haystack(table[i]), needle),
                    book_index(table[i].name), table[i]>>],
              LAMBDA item : item[1] >= 0)

\* the order of the canon alone
KeyLess_canon_order(a, b) == a[2] < b[2]

\* the order of the sort keys (item[0], book_index(item[1].name))
KeyLess(a, b) == a[1] < b[1] \/ (a[1] = b[1] /\ a[2] < b[2])

\* list.sort(key=...) keeps the order of equal keys: item goes after the
\* items of sorted that are not greater
Inserted(sorted, item) ==
    Let(Cardinality({k \in 1..Len(sorted) : ~KeyLess(item, sorted[k])}),
        LAMBDA p : SubSeq(sorted, 1, p) \o <<item>>
                   \o SubSeq(sorted, p + 1, Len(sorted)))

RECURSIVE SortedFrom(_, _, _)
\* matches.sort(key=lambda item: (item[0], book_index(item[1].name)))
SortedFrom(matches, k, sorted) ==
    IF k > Len(matches) THEN sorted
    ELSE Let(Inserted(sorted, matches[k]), LAMBDA longer :
             SortedFrom(matches, k + 1, longer))

\* [book for _, book in matches]
BooksOf(matches) == [k \in 1..Len(matches) |-> matches[k][3]]

\* Search books by name/alias with scoring
search_books(query, limit) ==
    Let(Lower(Strip(query)), LAMBDA needle :
        IF needle = <<>> THEN SliceTo(_CANON_TABLE, limit)
        ELSE SliceTo(BooksOf(SortedFrom(Matches(_CANON_TABLE, needle), 1,
                                        <<>>)),
                     limit))

-----------------------------------------------------------------------------
(* backend/diatheke.py: the output normalizer and the verse/word parser.   *)

\* r"<[^>]+>"
_HTML_TAG == <<Lit(<<"<">>), Plus(NotCls({">"})), Lit(<<">">>)>>

\* r"\s+"
_WHITESPACE == <<Plus(Cls(WhiteSpace))>>

\* r"^(?P<book>[\w\s]+?)\s+(?P<chapter>\d+):(?P<verse>\d+)\s*[:\-]?\s*(?P<text>.*)$"
\* with book, chapter, verse, text as groups 1 to 4
_VERSE_PATTERN ==
    <<Bol, Grp(1, <<LazyPlus(Cls(WordChars \cup WhiteSpace))>>),
      Plus(Cls(WhiteSpace)), Grp(2, <<Plus(Cls(Digits))>>), Lit(<<":">>),
      Grp(3, <<Plus(Cls(Digits))>>), Star(Cls(WhiteSpace)),
      Opt(<<Cls({":", "-"})>>), Star(Cls(WhiteSpace)),
      Grp(4, <<Star(NotCls({"\n"}))>>), Eol>>

\* r"^(?P<verse>\d+)[\.\:\s]+(?P<text>.*)$" with verse, text as groups 1, 2
_LEADING_VERSE ==
    <<Bol, Grp(1, <<Plus(Cls(Digits))>>),
      Plus(Cls({".", ":"} \cup WhiteSpace)),
      Grp(2, <<Star(NotCls({"\n"}))>>), Eol>>

\* r'<w\s+savlm="([^"]+)"[^>]*>([^<]+)</w>'
_STRONGS_WORD ==
    <<Lit(<<"<", "w">>), Plus(Cls(WhiteSpace)),
      Lit(<<"s", "a", "v", "l", "m", "=", "\"">>),
      Grp(1, <<Plus(NotCls({"\""}))>>), Lit(<<"\"">>), Star(NotCls({">"})),
      Lit(<<">">>), Grp(2, <<Plus(NotCls({"<"}))>>), Lit(<<"<", "/", "w", ">">>)>>

\* r'strong:([GH]\d+)'
_STRONGS_NUM ==
    <<Lit(<<"s", "t", "r", "o", "n", "g", ":">>),
      Grp(1, <<Cls({"G", "H"}), Plus(Cls(Digits))>>)>>

WordWithStrongs(text, strongs) == [text |-> text, strongs |-> strongs]

VerseSegment(book, chapter, verse, text, words) ==
    [book |-> book, chapter |-> chapter, verse |-> verse, text |-> text,
     words |-> words]

\* _HTML_TAG.sub(" ", t), html.unescape, _WHITESPACE.sub(" ", ...).strip()
CleanText(t) ==
    Strip(ReSub(_WHITESPACE, <<" ">>, html_unescape(ReSub(_HTML_TAG, <<" ">>, t))))

\* one WordWithStrongs without numbers for each word of a cleaned text
PlainWords(clean) ==
    Let(SplitWs(clean), LAMBDA ws :
        [k \in 1..Len(ws) |-> WordWithStrongs(ws[k], <<>>)])

\* tuple(_STRONGS_NUM.findall(savlm))
StrongsNums(savlm) ==
    Let(ReFindIter(_STRONGS_NUM, 1, savlm, 1), LAMBDA ms :
        [k \in 1..Len(ms) |-> Group(ms[k], savlm, 1)])

\* words and plain_parts after a cleaned text between two tags, if it is
\* not empty: its words, without numbers, and the text
AddPlain(r, clean) ==
    IF clean # <<>>
    THEN [words |-> r.words \o PlainWords(clean),
          plain_parts |-> Append(r.plain_parts, clean)]
    ELSE r

\* words and plain_parts after the word of a tag, if it is not empty
AddWord(r, word_text, strongs_nums) ==
    IF word_text # <<>>
    THEN [words |-> Append(r.words, WordWithStrongs(word_text, strongs_nums)),
          plain_parts |-> Append(r.plain_parts, word_text)]
    ELSE r

RECURSIVE StrongsLoop(_, _, _, _, _)
\* the loop of _parse_strongs_words over the matches ms of _STRONGS_WORD,
\* from match k on, and the text after the last match; r holds words and
\* plain_parts
StrongsLoop(raw_line, ms, k, last_end, r) ==
    IF k > Len(ms)
    THEN AddPlain(r, CleanText(SubSeq(raw_line, last_end, Len(raw_line))))
    ELSE Let(ms[k], LAMBDA match :
             StrongsLoop(
                 raw_line, ms, k + 1, match.end,
                 AddWord(AddPlain(r, CleanText(SubSeq(raw_line, last_end,
                                                      match.start - 1))),
                         Strip(Group(match, raw_line, 2)),
                         StrongsNums(Group(match, raw_line, 1)))))

\* Parse Strong's numbers from a raw line with XML markup:
\* <<plain_text, words>>
_parse_strongs_words(raw_line) ==
    Let(StrongsLoop(raw_line, ReFindIter(_STRONGS_WORD, 2, raw_line, 1),
                    1, 1, [words |-> <<>>, plain_parts |-> <<>>]),
        LAMBDA r :
            <<Strip(ReSub(_WHITESPACE, <<" ">>, Join(r.plain_parts, <<" ">>))),
              r.words>>)

\* seg_book: DIATHEKE_TO_CANON.get(raw_book), else resolve_alias(raw_book)
\* or book
SegBook(raw_book, book) ==
    Let(DictGet(DIATHEKE_TO_CANON, raw_book), LAMBDA seg_book :
        IF seg_book # NoneStr THEN seg_book
        ELSE Let(resolve_alias(raw_book, TRUE), LAMBDA resolved :
                 IF resolved # NoneStr THEN resolved ELSE book))

\* the segment of a verse, if its text is not empty: parsed is
\* <<verse_text, words>>
SegmentIfText(book, chapter, verse, parsed) ==
    IF parsed[1] # <<>>
    THEN <<VerseSegment(book, chapter, verse, parsed[1], parsed[2])>>
    ELSE <<>>

\* <<verse_text, words>>: _parse_strongs_words on the raw line after the
\* match of the reference if there is one, else the text of the normalized
\* line, without words
TextAndWords(raw_line, ref_match, text) ==
    IF ref_match.ok
    THEN _parse_strongs_words(SubSeq(raw_line, ref_match.end, Len(raw_line)))
    ELSE <<Strip(text), <<>>>>

\* rf"{re.escape(raw_book)}\s+{ch}:{verse}\s*[:\-]?\s*"
RefPattern(raw_book, ch, verse) ==
    <<Lit(raw_book), Plus(Cls(WhiteSpace)), Lit(IntToStr(ch)),
      Lit(<<":">>), Lit(IntToStr(verse)), Star(Cls(WhiteSpace)),
      Opt(<<Cls({":", "-"})>>), Star(Cls(WhiteSpace))>>

\* rf"^\s*{verse}[\.\:\s]+"
VersePattern(verse) ==
    <<Bol, Star(Cls(WhiteSpace)), Lit(IntToStr(verse)),
      Plus(Cls({".", ":"} \cup WhiteSpace))>>

\* the segment of a line that matches the full reference pattern
FullReferenceLine(book, raw_line, normalized, match) ==
    Let(Strip(Group(match, normalized, 1)), LAMBDA raw_book :
    Let(ParseInt(Group(match, normalized, 2)), LAMBDA ch :
    Let(ParseInt(Group(match, normalized, 3)), LAMBDA verse :
        SegmentIfText(
            SegBook(raw_book, book), ch, verse,
            TextAndWords(raw_line,
                         ReSearch(RefPattern(raw_book, ch, verse), 0,
                                  raw_line, 1),
                         Group(match, normalized, 4))))))

\* the segment of a line that matches the leading verse number pattern
LeadingVerseLine(book, chapter, raw_line, normalized, match2) ==
    Let(ParseInt(Group(match2, normalized, 1)), LAMBDA verse :
        SegmentIfText(
            book, chapter, verse,
            TextAndWords(raw_line,
                         ReMatchAt(VersePattern(verse), 0, raw_line, 1),
                         Group(match2, normalized, 2))))

\* the segments one raw line of the lookup output adds (none or one)
ParseLookupLine(book, chapter, raw_line) ==
    \* Skip module attribution lines
    IF StartsWith(raw_line, <<"(">>) /\ EndsWith(raw_line, <<")">>) THEN <<>>
    ELSE
    \* First normalize to get reference pattern
    Let(CleanText(raw_line), LAMBDA normalized :
        IF normalized = <<>> THEN <<>>
        ELSE
        \* Try full reference pattern: "Book Chapter:Verse: text"
        Let(ReMatchAt(_VERSE_PATTERN, 4, normalized, 1), LAMBDA match :
            IF match.ok
            THEN FullReferenceLine(book, raw_line, normalized, match)
            ELSE
            \* Try leading verse number pattern: "1. text"
            Let(ReMatchAt(_LEADING_VERSE, 2, normalized, 1), LAMBDA match2 :
                IF match2.ok
                THEN LeadingVerseLine(book, chapter, raw_line, normalized,
                                      match2)
                ELSE <<>>)))

\* [line.strip() for line in text.splitlines() if line.strip()]
StrippedLines(text) ==
    Let(SplitLines(text), LAMBDA lines :
        SelectSeq([k \in 1..Len(lines) |-> Strip(lines[k])],
                  LAMBDA line : line # <<>>))

RECURSIVE ParseLookupFrom(_, _, _, _)
ParseLookupFrom(book, chapter, raw_lines, k) ==
    IF k > Len(raw_lines) THEN <<>>
    ELSE ParseLookupLine(book, chapter, raw_lines[k])
         \o ParseLookupFrom(book, chapter, raw_lines, k + 1)

\* Parse diatheke lookup output into verse segments
_parse_lookup(book, chapter, text) ==
    ParseLookupFrom(book, chapter, StrippedLines(text), 1)

\* the lines one raw line adds to the normalized output (none or one)
NormalizeLine(raw) ==
    Let(Strip(raw), LAMBDA line :
        IF line = <<>> THEN <<>>
        \* Skip module attribution lines
        ELSE IF StartsWith(line, <<"(">>) /\ EndsWith(line, <<")">>) THEN <<>>
        ELSE
        \* Strip HTML tags
        Let(IF Contains(line, "<") THEN ReSub(_HTML_TAG, <<" ">>, line)
            ELSE line, LAMBDA line1 :
        \* Unescape HTML entities
        Let(IF Contains(line1, "&") THEN html_unescape(line1) ELSE line1,
            LAMBDA line2 :
        \* Normalize whitespace
        Let(Strip(ReSub(_WHITESPACE, <<" ">>, line2)), LAMBDA line3 :
            IF line3 # <<>> THEN <<line3>> ELSE <<>>))))

RECURSIVE NormalizeFrom(_, _)
NormalizeFrom(lines, k) ==
    IF k > Len(lines) THEN <<>>
    ELSE NormalizeLine(lines[k]) \o NormalizeFrom(lines, k + 1)

\* Normalize diatheke output: strip HTML, clean whitespace
_normalize_lines(text) == NormalizeFrom(SplitLines(text), 1)

-----------------------------------------------------------------------------
(* data/types.py, backend/crossref.py and backend/commentary.py: the        *)
(* cross-reference extractors.                                              *)

\* re.split(pattern, s) for a pattern without groups that matches no empty
\* text
ReSplit(rs, s) ==
    Let(ReFindIter(rs, 0, s, 1), LAMBDA ms :
        [k \in 1..(Len(ms) + 1) |->
            SubSeq(s, IF k = 1 THEN 1 ELSE ms[k - 1].end,
                   IF k <= Len(ms) THEN ms[k].start - 1 ELSE Len(s))])

\* A cross-reference to another verse
CrossReference(book, chapter, verse, verse_end) ==
    [book |-> book, chapter |-> chapter, verse |-> verse,
     verse_end |-> verse_end, preview |-> <<>>]

\* CrossReference.reference: the formatted reference string
reference(self) ==
    IF self.verse_end # NoneInt /\ self.verse_end # 0
       /\ self.verse_end # self.verse
    THEN self.book \o <<" ">> \o IntToStr(self.chapter) \o <<":">>
         \o IntToStr(self.verse) \o <<"-">> \o IntToStr(self.verse_end)
    ELSE self.book \o <<" ">> \o IntToStr(self.chapter) \o <<":">>
         \o IntToStr(self.verse)

\* r"(?P<book>(?:\d\s+)?[A-Za-z]+(?:\s+[A-Za-z]+)?)\s*"
\* r"(?P<chapter>\d+)\s*[:.]\s*(?P<verse>\d+)"
\* r"(?:\s*[-â€“]\s*(?P<verse_end>\d+))?"
\* with book, chapter, verse, verse_end as groups 1 to 4; the class of the
\* dash holds two more characters, U+20AC and U+201C, that no input holds
_REF_PATTERN ==
    <<Grp(1, <<Opt(<<Cls(Digits), Plus(Cls(WhiteSpace))>>),
               Plus(Cls(AsciiLetters)),
               Opt(<<Plus(Cls(WhiteSpace)), Plus(Cls(AsciiLetters))>>)>>),
      Star(Cls(WhiteSpace)), Grp(2, <<Plus(Cls(Digits))>>),
      Star(Cls(WhiteSpace)), Cls({":", "."}), Star(Cls(WhiteSpace)),
      Grp(3, <<Plus(Cls(Digits))>>),
      Opt(<<Star(Cls(WhiteSpace)), Cls({"-", "â"}),
            Star(Cls(WhiteSpace)), Grp(4, <<Plus(Cls(Digits))>>)>>)>>

\* r'<scripRef[^>]*passage="([^"]+)"[^>]*>', re.IGNORECASE
_SCRIPREF_PATTERN ==
    <<LitI(<<"<", "s", "c", "r", "i", "p", "R", "e", "f">>), Star(NotCls({">"})), LitI(<<"p", "a", "s", "s", "a", "g", "e", "=", "\"">>),
      Grp(1, <<Plus(NotCls({"\""}))>>), Lit(<<"\"">>), Star(NotCls({">"})),
      Lit(<<">">>)>>

\* r'<note[^>]*type="crossReference"[^>]*>(.*?)</note>',
\* re.IGNORECASE | re.DOTALL
_OSIS_XREF_NOTE ==
    <<LitI(<<"<", "n", "o", "t", "e">>), Star(NotCls({">"})), LitI(<<"t", "y", "p", "e", "=", "\"", "c", "r", "o", "s", "s", "R", "e", "f", "e", "r", "e", "n", "c", "e", "\"">>),
      Star(NotCls({">"})), Lit(<<">">>), Grp(1, <<LazyStar(NotCls({}))>>),
      LitI(<<"<", "/", "n", "o", "t", "e", ">">>)>>

\* r'<note[^>]*type="crossReference"[^>]*>([^<]+)</note>', re.IGNORECASE
_XREF_NOTE_PATTERN ==
    <<LitI(<<"<", "n", "o", "t", "e">>), Star(NotCls({">"})), LitI(<<"t", "y", "p", "e", "=", "\"", "c", "r", "o", "s", "s", "R", "e", "f", "e", "r", "e", "n", "c", "e", "\"">>),
      Star(NotCls({">"})), Lit(<<">">>), Grp(1, <<Plus(NotCls({"<"}))>>),
      LitI(<<"<", "/", "n", "o", "t", "e", ">">>)>>

\* r'(\d?\s*[A-Za-z]+\.?)\s*(\d+):(\d+)(?:-(\d+))?'
_SIMPLE_REF ==
    <<Grp(1, <<Opt(<<Cls(Digits)>>), Star(Cls(WhiteSpace)),
               Plus(Cls(AsciiLetters)), Opt(<<Lit(<<".">>)>>)>>),
      Star(Cls(WhiteSpace)), Grp(2, <<Plus(Cls(Digits))>>), Lit(<<":">>),
      Grp(3, <<Plus(Cls(Digits))>>),
      Opt(<<Lit(<<"-">>), Grp(4, <<Plus(Cls(Digits))>>)>>)>>

\* Abbreviation mappings for common book abbreviations in references:
\* <<abbreviation, name>> in the order of the dict literal
_BOOK_ABBREVS_ITEMS == <<
    <<<<"J", "o", "h">>, <<"J", "o", "h", "n">>>>,
    <<<<"J", "o">>, <<"J", "o", "h", "n">>>>,
    <<<<"J", "n">>, <<"J", "o", "h", "n">>>>,
    <<<<"1", "J", "o">>, <<"1", " ", "J", "o", "h", "n">>>>,
    <<<<"1", "J", "n">>, <<"1", " ", "J", "o", "h", "n">>>>,
    <<<<"1", " ", "J", "o">>, <<"1", " ", "J", "o", "h", "n">>>>,
    <<<<"2", "J", "o">>, <<"2", " ", "J", "o", "h", "n">>>>,
    <<<<"2", "J", "n">>, <<"2", " ", "J", "o", "h", "n">>>>,
    <<<<"2", " ", "J", "o">>, <<"2", " ", "J", "o", "h", "n">>>>,
    <<<<"3", "J", "o">>, <<"3", " ", "J", "o", "h", "n">>>>,
    <<<<"3", "J", "n">>, <<"3", " ", "J", "o", "h", "n">>>>,
    <<<<"3", " ", "J", "o">>, <<"3", " ", "J", "o", "h", "n">>>>,
    <<<<"R", "o">>, <<"R", "o", "m", "a", "n", "s">>>>,
    <<<<"R", "o", "m">>, <<"R", "o", "m", "a", "n", "s">>>>,
    <<<<"1", "C", "o">>, <<"1", " ", "C", "o", "r", "i", "n", "t", "h", "i", "a", "n", "s">>>>,
    <<<<"1", "C", "o", "r">>, <<"1", " ", "C", "o", "r", "i", "n", "t", "h", "i", "a", "n", "s">>>>,
    <<<<"2", "C", "o">>, <<"2", " ", "C", "o", "r", "i", "n", "t", "h", "i", "a", "n", "s">>>>,
    <<<<"2", "C", "o", "r">>, <<"2", " ", "C", "o", "r", "i", "n", "t", "h", "i", "a", "n", "s">>>>,
    <<<<"G", "a">>, <<"G", "a", "l", "a", "t", "i", "a", "n", "s">>>>,
    <<<<"G", "a", "l">>, <<"G", "a", "l", "a", "t", "i", "a", "n", "s">>>>,
    <<<<"E", "p", "h">>, <<"E", "p", "h", "e", "s", "i", "a", "n", "s">>>>,
    <<<<"E", "p">>, <<"E", "p", "h", "e", "s", "i", "a", "n", "s">>>>,
    <<<<"P", "h", "p">>, <<"P", "h", "i", "l", "i", "p", "p", "i", "a", "n", "s">>>>,
    <<<<"P", "h", "i", "l">>, <<"P", "h", "i", "l", "i", "p", "p", "i", "a", "n", "s">>>>,
    <<<<"C", "o", "l">>, <<"C", "o", "l", "o", "s", "s", "i", "a", "n", "s">>>>,
    <<<<"1", "T", "h">>, <<"1", " ", "T", "h", "e", "s", "s", "a", "l", "o", "n", "i", "a", "n", "s">>>>,
    <<<<"1", "T", "h", "e", "s">>, <<"1", " ", "T", "h", "e", "s", "s", "a", "l", "o", "n", "i", "a", "n", "s">>>>,
    <<<<"2", "T", "h">>, <<"2", " ", "T", "h", "e", "s", "s", "a", "l", "o", "n", "i", "a", "n", "s">>>>,
    <<<<"2", "T", "h", "e", "s">>, <<"2", " ", "T", "h", "e", "s", "s", "a", "l", "o", "n", "i", "a", "n", "s">>>>,
    <<<<"1", "T", "i">>, <<"1", " ", "T", "i", "m", "o", "t", "h", "y">>>>,
    <<<<"1", "T", "i", "m">>, <<"1", " ", "T", "i", "m", "o", "t", "h", "y">>>>,
    <<<<"2", "T", "i">>, <<"2", " ", "T", "i", "m", "o", "t", "h", "y">>>>,
    <<<<"2", "T", "i", "m">>, <<"2", " ", "T", "i", "m", "o", "t", "h", "y">>>>,
    <<<<"T", "i", "t">>, <<"T", "i", "t", "u", "s">>>>,
    <<<<"P", "h", "m">>, <<"P", "h", "i", "l", "e", "m", "o", "n">>>>,
    <<<<"P", "h", "l", "m">>, <<"P", "h", "i", "l", "e", "m", "o", "n">>>>,
    <<<<"H", "e", "b">>, <<"H", "e", "b", "r", "e", "w", "s">>>>,
    <<<<"H", "e", "b", "r">>, <<"H", "e", "b", "r", "e", "w", "s">>>>,
    <<<<"J", "a", "s">>, <<"J", "a", "m", "e", "s">>>>,
    <<<<"J", "a", "m">>, <<"J", "a", "m", "e", "s">>>>,
    <<<<"1", "P", "e">>, <<"1", " ", "P", "e", "t", "e", "r">>>>,
    <<<<"1", "P", "e", "t">>, <<"1", " ", "P", "e", "t", "e", "r">>>>,
    <<<<"1", "P", "t">>, <<"1", " ", "P", "e", "t", "e", "r">>>>,
    <<<<"2", "P", "e">>, <<"2", " ", "P", "e", "t", "e", "r">>>>,
    <<<<"2", "P", "e", "t">>, <<"2", " ", "P", "e", "t", "e", "r">>>>,
    <<<<"2", "P", "t">>, <<"2", " ", "P", "e", "t", "e", "r">>>>,
    <<<<"J", "u", "d", "e">>, <<"J", "u", "d", "e">>>>,
    <<<<"J", "u", "d">>, <<"J", "u", "d", "e">>>>,
    <<<<"R", "e">>, <<"R", "e", "v", "e", "l", "a", "t", "i", "o", "n">>>>,
    <<<<"R", "e", "v">>, <<"R", "e", "v", "e", "l", "a", "t", "i", "o", "n">>>>,
    <<<<"M", "t">>, <<"M", "a", "t", "t", "h", "e", "w">>>>,
    <<<<"M", "a", "t", "t">>, <<"M", "a", "t", "t", "h", "e", "w">>>>,
    <<<<"M", "a", "t">>, <<"M", "a", "t", "t", "h", "e", "w">>>>,
    <<<<"M", "k">>, <<"M", "a", "r", "k">>>>,
    <<<<"M", "a", "r">>, <<"M", "a", "r", "k">>>>,
    <<<<"L", "k">>, <<"L", "u", "k", "e">>>>,
    <<<<"L", "u", "k">>, <<"L", "u", "k", "e">>>>,
    <<<<"L", "u">>, <<"L", "u", "k", "e">>>>,
    <<<<"A", "c">>, <<"A", "c", "t", "s">>>>,
    <<<<"A", "c", "t">>, <<"A", "c", "t", "s">>>>,
    <<<<"G", "e">>, <<"G", "e", "n", "e", "s", "i", "s">>>>,
    <<<<"G", "e", "n">>, <<"G", "e", "n", "e", "s", "i", "s">>>>,
    <<<<"E", "x">>, <<"E", "x", "o", "d", "u", "s">>>>,
    <<<<"E", "x", "o">>, <<"E", "x", "o", "d", "u", "s">>>>,
    <<<<"L", "e">>, <<"L", "e", "v", "i", "t", "i", "c", "u", "s">>>>,
    <<<<"L", "e", "v">>, <<"L", "e", "v", "i", "t", "i", "c", "u", "s">>>>,
    <<<<"N", "u">>, <<"N", "u", "m", "b", "e", "r", "s">>>>,
    <<<<"N", "u", "m">>, <<"N", "u", "m", "b", "e", "r", "s">>>>,
    <<<<"D", "e">>, <<"D", "e", "u", "t", "e", "r", "o", "n", "o", "m", "y">>>>,
    <<<<"D", "e", "u">>, <<"D", "e", "u", "t", "e", "r", "o", "n", "o", "m", "y">>>>,
    <<<<"D", "t">>, <<"D", "e", "u", "t", "e", "r", "o", "n", "o", "m", "y">>>>,
    <<<<"J", "o", "s">>, <<"J", "o", "s", "h", "u", "a">>>>,
    <<<<"J", "o", "s", "h">>, <<"J", "o", "s", "h", "u", "a">>>>,
    <<<<"J", "d", "g">>, <<"J", "u", "d", "g", "e", "s">>>>,
    <<<<"J", "u", "d", "g">>, <<"J", "u", "d", "g", "e", "s">>>>,
    <<<<"R", "u">>, <<"R", "u", "t", "h">>>>,
    <<<<"1", "S", "a">>, <<"1", " ", "S", "a", "m", "u", "e", "l">>>>,
    <<<<"1", "S", "a", "m">>, <<"1", " ", "S", "a", "m", "u", "e", "l">>>>,
    <<<<"2", "S", "a">>, <<"2", " ", "S", "a", "m", "u", "e", "l">>>>,
    <<<<"2", "S", "a", "m">>, <<"2", " ", "S", "a", "m", "u", "e", "l">>>>,
    <<<<"1", "K", "i">>, <<"1", " ", "K", "i", "n", "g", "s">>>>,
    <<<<"1", "K", "g">>, <<"1", " ", "K", "i", "n", "g", "s">>>>,
    <<<<"2", "K", "i">>, <<"2", " ", "K", "i", "n", "g", "s">>>>,
    <<<<"2", "K", "g">>, <<"2", " ", "K", "i", "n", "g", "s">>>>,
    <<<<"1", "C", "h">>, <<"1", " ", "C", "h", "r", "o", "n", "i", "c", "l", "e", "s">>>>,
    <<<<"1", "C", "h", "r">>, <<"1", " ", "C", "h", "r", "o", "n", "i", "c", "l", "e", "s">>>>,
    <<<<"2", "C", "h">>, <<"2", " ", "C", "h", "r", "o", "n", "i", "c", "l", "e", "s">>>>,
    <<<<"2", "C", "h", "r">>, <<"2", " ", "C", "h", "r", "o", "n", "i", "c", "l", "e", "s">>>>,
    <<<<"E", "z", "r">>, <<"E", "z", "r", "a">>>>,
    <<<<"N", "e">>, <<"N", "e", "h", "e", "m", "i", "a", "h">>>>,
    <<<<"N", "e", "h">>, <<"N", "e", "h", "e", "m", "i", "a", "h">>>>,
    <<<<"E", "s">>, <<"E", "s", "t", "h", "e", "r">>>>,
    <<<<"E", "s", "t">>, <<"E", "s", "t", "h", "e", "r">>>>,
    <<<<"J", "o", "b">>, <<"J", "o", "b">>>>,
    <<<<"P", "s">>, <<"P", "s", "a", "l", "m", "s">>>>,
    <<<<"P", "s", "a">>, <<"P", "s", "a", "l", "m", "s">>>>,
    <<<<"P", "s", "a", "l", "m">>, <<"P", "s", "a", "l", "m", "s">>>>,
    <<<<"P", "r">>, <<"P", "r", "o", "v", "e", "r", "b", "s">>>>,
    <<<<"P", "r", "o">>, <<"P", "r", "o", "v", "e", "r", "b", "s">>>>,
    <<<<"P", "r", "o", "v">>, <<"P", "r", "o", "v", "e", "r", "b", "s">>>>,
    <<<<"E", "c">>, <<"E", "c", "c", "l", "e", "s", "i", "a", "s", "t", "e", "s">>>>,
    <<<<"E", "c", "c">>, <<"E", "c", "c", "l", "e", "s", "i", "a", "s", "t", "e", "s">>>>,
    <<<<"S", "o">>, <<"S", "o", "n", "g", " ", "o", "f", " ", "S", "o", "l", "o", "m", "o", "n">>>>,
    <<<<"S", "o", "n", "g">>, <<"S", "o", "n", "g", " ", "o", "f", " ", "S", "o", "l", "o", "m", "o", "n">>>>,
    <<<<"S", "o", "S">>, <<"S", "o", "n", "g", " ", "o", "f", " ", "S", "o", "l", "o", "m", "o", "n">>>>,
    <<<<"I", "s", "a">>, <<"I", "s", "a", "i", "a", "h">>>>,
    <<<<"I", "s">>, <<"I", "s", "a", "i", "a", "h">>>>,
    <<<<"J", "e", "r">>, <<"J", "e", "r", "e", "m", "i", "a", "h">>>>,
    <<<<"J", "e">>, <<"J", "e", "r", "e", "m", "i", "a", "h">>>>,
    <<<<"L", "a">>, <<"L", "a", "m", "e", "n", "t", "a", "t", "i", "o", "n", "s">>>>,
    <<<<"L", "a", "m">>, <<"L", "a", "m", "e", "n", "t", "a", "t", "i", "o", "n", "s">>>>,
    <<<<"E", "z", "e">>, <<"E", "z", "e", "k", "i", "e", "l">>>>,
    <<<<"E", "z", "k">>, <<"E", "z", "e", "k", "i", "e", "l">>>>,
    <<<<"E", "z">>, <<"E", "z", "e", "k", "i", "e", "l">>>>,
    <<<<"D", "a">>, <<"D", "a", "n", "i", "e", "l">>>>,
    <<<<"D", "a", "n">>, <<"D", "a", "n", "i", "e", "l">>>>,
    <<<<"H", "o">>, <<"H", "o", "s", "e", "a">>>>,
    <<<<"H", "o", "s">>, <<"H", "o", "s", "e", "a">>>>,
    <<<<"J", "o", "e">>, <<"J", "o", "e", "l">>>>,
    <<<<"A", "m">>, <<"A", "m", "o", "s">>>>,
    <<<<"A", "m", "o">>, <<"A", "m", "o", "s">>>>,
    <<<<"O", "b">>, <<"O", "b", "a", "d", "i", "a", "h">>>>,
    <<<<"O", "b", "a">>, <<"O", "b", "a", "d", "i", "a", "h">>>>,
    <<<<"J", "o", "n">>, <<"J", "o", "n", "a", "h">>>>,
    <<<<"M", "i", "c">>, <<"M", "i", "c", "a", "h">>>>,
    <<<<"M", "i">>, <<"M", "i", "c", "a", "h">>>>,
    <<<<"N", "a">>, <<"N", "a", "h", "u", "m">>>>,
    <<<<"N", "a", "h">>, <<"N", "a", "h", "u", "m">>>>,
    <<<<"H", "a", "b">>, <<"H", "a", "b", "a", "k", "k", "u", "k">>>>,
    <<<<"Z", "e", "p">>, <<"Z", "e", "p", "h", "a", "n", "i", "a", "h">>>>,
    <<<<"Z", "e", "p", "h">>, <<"Z", "e", "p", "h", "a", "n", "i", "a", "h">>>>,
    <<<<"H", "a", "g">>, <<"H", "a", "g", "g", "a", "i">>>>,
    <<<<"Z", "e", "c">>, <<"Z", "e", "c", "h", "a", "r", "i", "a", "h">>>>,
    <<<<"Z", "e", "c", "h">>, <<"Z", "e", "c", "h", "a", "r", "i", "a", "h">>>>,
    <<<<"M", "a", "l">>, <<"M", "a", "l", "a", "c", "h", "i">>>>
>>

_BOOK_ABBREVS == DictOf(_BOOK_ABBREVS_ITEMS)

\* int(g) if g else None, for a group g of digits
IntOrNone(g) == IF g # NoneStr THEN ParseInt(g) ELSE NoneInt

\* the truth of an Optional[int]: neither None nor 0
IntTruth(n) == n # NoneInt /\ n # 0

\* key = (ref.book, ref.chapter, ref.verse) where n is 3,
\* key = (xref.book, xref.chapter, xref.verse, xref.verse_end) where it is 4
Key(r, n) ==
    IF n = 3 THEN <<r.book, r.chapter, r.verse>>
    ELSE <<r.book, r.chapter, r.verse, r.verse_end>>

\* refs with r appended unless a reference of refs has r's key of n fields
\* (the set seen holds the keys of the references appended so far)
AppendUnseen(refs, r, n) ==
    Let(Key(r, n), LAMBDA key :
        IF \E k \in 1..Len(refs) : Key(refs[k], n) = key THEN refs
        ELSE Append(refs, r))

RECURSIVE ExtendUnseen(_, _, _)
\* the loop that appends each reference of parsed that is not yet seen
ExtendUnseen(refs, parsed, n) ==
    IF parsed = <<>> THEN refs
    ELSE ExtendUnseen(AppendUnseen(refs, Head(parsed), n), Tail(parsed), n)

\* for abbrev, full in _BOOK_ABBREVS.items(): if abbrev.lower() == lowered:
\* return full; None when no abbreviation is equal (a dict holds its keys in
\* the order of their first assignment, each with its last value)
FirstAbbrev(items, lowered) ==
    Let({i \in DOMAIN items : Lower(items[i][1]) = lowered}, LAMBDA hits :
        IF hits = {} THEN NoneStr
        ELSE DictOf(items)[items[SetMin(hits)][1]])

\* CommentaryBackend._resolve_book: resolve a book name/abbreviation to
\* canonical form (raw_book holds a letter: it is group 1 of _SIMPLE_REF)
_resolve_book(raw_book) ==
    \* Try direct lookup in abbreviations
    Let(DictGet(_BOOK_ABBREVS, Remove(Remove(raw_book, "."), " ")),
        LAMBDA direct :
    IF direct # NoneStr THEN direct
    ELSE
    \* Try with space for numbered books
    Let(IF raw_book[1] \in Digits
        THEN FirstAbbrev(_BOOK_ABBREVS_ITEMS,
                 Lower(Remove(<<raw_book[1], " ">>
                              \o LStripSet(Tail(raw_book), WhiteSpace), ".")))
        ELSE NoneStr, LAMBDA numbered :
    IF numbered # NoneStr THEN numbered
    ELSE
    \* Try resolve_alias
    Let(resolve_alias(raw_book, TRUE), LAMBDA resolved :
    IF resolved # NoneStr THEN resolved
    \* Try DIATHEKE_TO_CANON
    ELSE DictGet(DIATHEKE_TO_CANON, raw_book))))

\* the CrossReference of a match of _SIMPLE_REF in s, with the given book
SimpleRefOf(match, s, book) ==
    CrossReference(book, ParseInt(Group(match, s, 2)),
                   ParseInt(Group(match, s, 3)),
                   IntOrNone(Group(match, s, 4)))

\* raw_book = match.group(1).strip().rstrip('.')
SimpleRawBook(match, s) == RStripSet(Strip(Group(match, s, 1)), {"."})

\* r'(\d+)(?:-(\d+))?'
BareVerse ==
    <<Grp(1, <<Plus(Cls(Digits))>>),
      Opt(<<Lit(<<"-">>), Grp(2, <<Plus(Cls(Digits))>>)>>)>>

\* the state of the loop of a passage parser: the references so far, the
\* current book and the current chapter
PassageState(refs, current_book, current_chapter) ==
    [refs |-> refs, current_book |-> current_book,
     current_chapter |-> current_chapter]

\* the state after a part that holds a full reference, resolved to book
\* (None: the reference is left out)
AfterFullRef(st, found) ==
    IF found.book # NoneStr
    THEN PassageState(Append(st.refs, found), found.book, found.chapter)
    ELSE st

\* the state after a part that holds no full reference: just verse
\* number(s), if a book and a chapter are current
AfterBareVerse(st, part, verse_match) ==
    IF st.current_book # NoneStr /\ IntTruth(st.current_chapter)
       /\ verse_match.ok
    THEN [st EXCEPT !.refs =
             Append(@, CrossReference(st.current_book, st.current_chapter,
                                      ParseInt(Group(verse_match, part, 1)),
                                      IntOrNone(Group(verse_match, part, 2))))]
    ELSE st

\* the state after one part of the passage
AfterPart(st, part, match) ==
    IF part = <<>> THEN st
    \* Try to parse as full reference
    ELSE IF match.ok
    THEN AfterFullRef(st, SimpleRefOf(match, part,
                                      _resolve_book(SimpleRawBook(match, part))))
    \* Try as just verse number(s)
    ELSE AfterBareVerse(st, part, ReMatchAt(BareVerse, 2, part, 1))

RECURSIVE PassageLoop(_, _, _)
\* the loop of CommentaryBackend._parse_passage, from part k on
PassageLoop(parts, k, st) ==
    IF k > Len(parts) THEN st.refs
    ELSE Let(Strip(parts[k]), LAMBDA part :
             PassageLoop(parts, k + 1,
                         AfterPart(st, part,
                                   ReSearch(_SIMPLE_REF, 4, part, 1))))

\* CommentaryBackend._parse_passage: parse a passage string from a scripRef
\* tag; parts = re.split(r',\s*', passage)
_parse_passage(passage) ==
    PassageLoop(ReSplit(<<Lit(<<",">>), Star(Cls(WhiteSpace))>>, passage), 1,
                PassageState(<<>>, NoneStr, NoneInt))

RECURSIVE SimpleRefsLoop(_, _, _)
\* the loop of _parse_simple_refs over the matches ms, from match k on
SimpleRefsLoop(text, ms, k) ==
    IF k > Len(ms) THEN <<>>
    ELSE Let(_resolve_book(SimpleRawBook(ms[k], text)), LAMBDA book :
             IF book # NoneStr THEN <<SimpleRefOf(ms[k], text, book)>>
             ELSE <<>>)
         \o SimpleRefsLoop(text, ms, k + 1)

\* CommentaryBackend._parse_simple_refs: parse simple reference text like
\* '1 Kron. 1:4'
_parse_simple_refs(text) ==
    SimpleRefsLoop(text, ReFindIter(_SIMPLE_REF, 4, text, 1), 1)

RECURSIVE ExtractLoop(_, _, _, _, _)
\* the loop of _extract_crossrefs for method 1 or 2: over the matches ms of
\* the method's tag pattern, from match k on
ExtractLoop(text, ms, k, refs, method) ==
    IF k > Len(ms) THEN refs
    ELSE ExtractLoop(text, ms, k + 1,
                     ExtendUnseen(refs,
                                  IF method = 1
                                  THEN _parse_passage(Group(ms[k], text, 1))
                                  ELSE _parse_simple_refs(Group(ms[k], text, 1)),
                                  3),
                     method)

\* CommentaryBackend._extract_crossrefs, for a module that is not a
\* dedicated cross-reference module: extract cross-references from
\* commentary text
_extract_crossrefs(text) ==
    \* Method 2: <note type="crossReference"> tags (OSIS style)
    ExtractLoop(text, ReFindIter(_XREF_NOTE_PATTERN, 1, text, 1), 1,
                \* Method 1: scripRef tags (DutKant style)
                ExtractLoop(text, ReFindIter(_SCRIPREF_PATTERN, 1, text, 1),
                            1, <<>>, 1),
                2)

\* r"(\d+)\s*(\d+)?"
ChapterVerse ==
    <<Grp(1, <<Plus(Cls(Digits))>>), Star(Cls(WhiteSpace)),
      Opt(<<Grp(2, <<Plus(Cls(Digits))>>)>>)>>

\* resolve_alias(book) or book
AliasOrRaw(book) ==
    Let(resolve_alias(book, TRUE), LAMBDA resolved :
        IF resolved # NoneStr THEN resolved ELSE book)

\* the state of the while loop of CrossRefBackend._parse_passage_string: the
\* index of the part it is at (the first part is parts[1]), the references
\* so far, the current book and the current chapter
StringState(i, refs, current_book, current_chapter) ==
    [i |-> i, refs |-> refs, current_book |-> current_book,
     current_chapter |-> current_chapter]

\* the state after a part that is a chapter and a verse, or one number
AfterNumbers(st, canonical, num1, num2) ==
    IF num2 # NoneStr
    \* This is chapter verse
    THEN StringState(st.i + 1,
                     Append(st.refs, CrossReference(canonical, num1,
                                                    ParseInt(num2), NoneInt)),
                     st.current_book, num1)
    ELSE IF IntTruth(st.current_chapter)
    \* This is just a verse in current chapter
    THEN StringState(st.i + 1,
                     Append(st.refs,
                            CrossReference(canonical, st.current_chapter,
                                           num1, NoneInt)),
                     st.current_book, st.current_chapter)
    \* Assume this is chapter, next will be verse
    ELSE StringState(st.i + 1, st.refs, st.current_book, num1)

\* the state after a part that is no book name: try to parse as
\* chapter:verse or just verse
AfterNoBook(st, part, cv_match) ==
    IF st.current_book # NoneStr /\ cv_match.ok
    THEN AfterNumbers(st, AliasOrRaw(st.current_book),
                      ParseInt(Group(cv_match, part, 1)),
                      Group(cv_match, part, 2))
    ELSE [st EXCEPT !.i = @ + 1]

\* the state after a numbered book prefix (1, 2, 3) that has a next part
AfterPrefix(st, part, next_part, abbrev) ==
    IF abbrev # NoneStr
    THEN StringState(st.i + 2, st.refs, abbrev, st.current_chapter)
    ELSE IF resolve_alias(part \o <<" ">> \o next_part, TRUE) # NoneStr
    THEN StringState(st.i + 2, st.refs, part \o <<" ">> \o next_part,
                     st.current_chapter)
    ELSE AfterNoBook(st, part, ReMatchAt(ChapterVerse, 2, part, 1))

\* the state after a part that is not in _BOOK_ABBREVS
AfterNoAbbrev(parts, st, part) ==
    IF resolve_alias(part, TRUE) # NoneStr
    THEN StringState(st.i + 1, st.refs, part, st.current_chapter)
    \* Check for numbered book prefix (1, 2, 3)
    ELSE IF part \in {<<"1">>, <<"2">>, <<"3">>} /\ st.i + 1 <= Len(parts)
    THEN AfterPrefix(st, part, parts[st.i + 1],
                     DictGet(_BOOK_ABBREVS, part \o parts[st.i + 1]))
    ELSE AfterNoBook(st, part, ReMatchAt(ChapterVerse, 2, part, 1))

\* the state after parts[st.i]: check if this is a book name
AfterStringPart(parts, st, part, abbrev) ==
    IF abbrev # NoneStr
    THEN StringState(st.i + 1, st.refs, abbrev, st.current_chapter)
    ELSE AfterNoAbbrev(parts, st, part)

RECURSIVE PassageStringLoop(_, _)
\* the while loop of CrossRefBackend._parse_passage_string
PassageStringLoop(parts, st) ==
    IF st.i > Len(parts) THEN st.refs
    ELSE PassageStringLoop(parts,
             AfterStringPart(parts, st, parts[st.i],
                             DictGet(_BOOK_ABBREVS, parts[st.i])))

\* CrossRefBackend._parse_passage_string: parse a passage string like
\* 'Joh 11:51,52, 1Jo 2:2, Ro 5:6,8'
_parse_passage_string(passage) ==
    PassageStringLoop(
        SplitWs(Strip(ReSub(_WHITESPACE, <<" ">>,
                            Replace(Replace(passage, ".", " "), ":", " ")))),
        StringState(1, <<>>, NoneStr, NoneInt))

RECURSIVE ScriprefLoop(_, _, _)
\* the loop of _parse_scripref_tags over the matches ms, from match k on
ScriprefLoop(output, ms, k) ==
    IF k > Len(ms) THEN <<>>
    ELSE _parse_passage_string(Group(ms[k], output, 1))
         \o ScriprefLoop(output, ms, k + 1)

\* CrossRefBackend._parse_scripref_tags: parse <scripRef> tags from
\* commentary output
_parse_scripref_tags(output) ==
    ScriprefLoop(output, ReFindIter(_SCRIPREF_PATTERN, 1, output, 1), 1)

\* the book of a reference found in plain text: _BOOK_ABBREVS.get(raw_book),
\* else DIATHEKE_TO_CANON.get(raw_book), else resolve_alias(raw_book) or
\* raw_book
BookOrRaw(raw_book) ==
    Let(DictGet(_BOOK_ABBREVS, raw_book), LAMBDA abbrev :
        IF abbrev # NoneStr THEN abbrev
        ELSE Let(DictGet(DIATHEKE_TO_CANON, raw_book), LAMBDA canon :
                 IF canon # NoneStr THEN canon ELSE AliasOrRaw(raw_book)))

RECURSIVE PlainRefsLoop(_, _, _, _)
\* the loop of _parse_plain_refs over the matches ms, from match k on
PlainRefsLoop(clean, ms, k, refs) ==
    IF k > Len(ms) THEN refs
    ELSE PlainRefsLoop(clean, ms, k + 1,
             AppendUnseen(refs,
                 CrossReference(BookOrRaw(Strip(Group(ms[k], clean, 1))),
                                ParseInt(Group(ms[k], clean, 2)),
                                ParseInt(Group(ms[k], clean, 3)),
                                IntOrNone(Group(ms[k], clean, 4))),
                 4))

\* CrossRefBackend._parse_plain_refs: parse plain reference text (TSK-style
\* output)
_parse_plain_refs(output) ==
    \* Remove HTML tags
    Let(ReSub(_HTML_TAG, <<" ">>, output), LAMBDA clean :
        PlainRefsLoop(clean, ReFindIter(_REF_PATTERN, 4, clean, 1), 1, <<>>))

RECURSIVE OsisRefsLoop(_, _, _, _)
\* the loop of _parse_osis_crossrefs over the references ms within one
\* note, from match k on
OsisRefsLoop(note_content, ms, k, refs) ==
    IF k > Len(ms) THEN refs
    ELSE OsisRefsLoop(note_content, ms, k + 1,
             AppendUnseen(refs,
                 SimpleRefOf(ms[k], note_content,
                             BookOrRaw(SimpleRawBook(ms[k], note_content))),
                 4))

\* the references of one note, added to refs
OsisNote(note_content, refs) ==
    \* Also try scripRef tags within the note
    ExtendUnseen(
        \* Parse references within the note
        OsisRefsLoop(note_content,
                     ReFindIter(_SIMPLE_REF, 4, note_content, 1), 1, refs),
        _parse_scripref_tags(note_content), 4)

RECURSIVE OsisNotesLoop(_, _, _, _)
\* the loop of _parse_osis_crossrefs over the notes ms, from match k on
OsisNotesLoop(output, ms, k, refs) ==
    IF k > Len(ms) THEN refs
    ELSE OsisNotesLoop(output, ms, k + 1,
                       OsisNote(Group(ms[k], output, 1), refs))

\* CrossRefBackend._parse_osis_crossrefs: parse cross-references from OSIS
\* output
_parse_osis_crossrefs(output) ==
    OsisNotesLoop(output, ReFindIter(_OSIS_XREF_NOTE, 1, output, 1), 1, <<>>)

\* A TSK keyword with its associated cross-references
KeywordGroup(keyword, refs) == [keyword |-> keyword, refs |-> refs]

\* r'<verse[^>]*>(.*?)</verse>' under re.DOTALL
VerseElement ==
    <<Lit(<<"<", "v", "e", "r", "s", "e">>), Star(NotCls({">"})), Lit(<<">">>),
      Grp(1, <<LazyStar(NotCls({}))>>), Lit(<<"<", "/", "v", "e", "r", "s", "e", ">">>)>>

\* Match complete <reference osisRef="...">display</reference> tags:
\* r'<reference\s+osisRef="(?P<ref>[^"]+)"[^>]*>[^<]*</reference>'
full_ref ==
    <<Lit(<<"<", "r", "e", "f", "e", "r", "e", "n", "c", "e">>), Plus(Cls(WhiteSpace)), Lit(<<"o", "s", "i", "s", "R", "e", "f", "=", "\"">>),
      Grp(1, <<Plus(NotCls({"\""}))>>), Lit(<<"\"">>), Star(NotCls({">"})),
      Lit(<<">">>), Star(NotCls({"<"})), Lit(<<"<", "/", "r", "e", "f", "e", "r", "e", "n", "c", "e", ">">>)>>

\* max(verse_matches, key=len) if verse_matches else "": the first of the
\* longest contents of a verse element
LongestVerse(text, ms) ==
    Let({k \in 1..Len(ms) :
            \A j \in 1..Len(ms) :
                Len(Group(ms[j], text, 1)) <= Len(Group(ms[k], text, 1))},
        LAMBDA longest :
            IF longest = {} THEN <<>>
            ELSE Group(ms[SetMin(longest)], text, 1))

\* what int(s) reads the number from: s without the whitespace around it
\* and without a sign (a key is split at "-", so the sign is a "+")
IntDigits(s) ==
    Let(Strip(s), LAMBDA t :
        IF t # <<>> /\ t[1] = "+" THEN Tail(t) ELSE t)

\* int(s) raises no ValueError: decimal digits, single underscores between
\* them allowed
IsInt(s) ==
    Let(IntDigits(s), LAMBDA d :
        /\ d # <<>>
        /\ d[1] \in Digits
        /\ d[Len(d)] \in Digits
        /\ \A k \in 1..Len(d) : d[k] \in Digits \cup {"_"}
        /\ \A k \in 1..(Len(d) - 1) : ~(d[k] = "_" /\ d[k + 1] = "_"))

\* int(s), when it raises no ValueError
IntOf(s) == ParseInt(Remove(IntDigits(s), "_"))

\* a gap with a period signals a new keyword, however few its letters
IsKeywordGap_any_period(gap_clean) == Contains(gap_clean, ".")

\* A gap with >= 3 letters and at least one period signals a new keyword
IsKeywordGap(gap_clean) ==
    /\ Cardinality({k \in 1..Len(gap_clean) : gap_clean[k] \in AsciiLetters})
           >= 3
    /\ Contains(gap_clean, ".")

\* kw = gap_clean; if kw.endswith('.'): kw = kw[:-1]
KeywordOf(gap_clean) ==
    IF EndsWith(gap_clean, <<".">>)
    THEN SubSeq(gap_clean, 1, Len(gap_clean) - 1)
    ELSE gap_clean

\* if current_kw is not None and current_refs: groups.append(...)
WithGroup(groups, current_kw, current_refs) ==
    IF current_kw # NoneStr /\ current_refs # <<>>
    THEN Append(groups, KeywordGroup(current_kw, current_refs))
    ELSE groups

\* the state of the loop of _extract_keyword_groups
GroupState(groups, current_kw, current_refs) ==
    [groups |-> groups, current_kw |-> current_kw,
     current_refs |-> current_refs]

\* the state after the gap before a reference tag
AfterGap(st, gap_clean) ==
    IF IsKeywordGap(gap_clean)
    THEN GroupState(WithGroup(st.groups, st.current_kw, st.current_refs),
                    KeywordOf(gap_clean), <<>>)
    ELSE st

\* ve, from the tokens et of the part after the "-" of a key whose first
\* part names chapter ch
EndOfRange(et, ch) ==
    IF Len(et) >= 3 /\ IsInt(et[2]) /\ IntOf(et[2]) = ch /\ IsInt(et[3])
    THEN IntOf(et[3])
    ELSE NoneInt

\* ve of the key split into parts at "-"
VerseEnd(parts, ch) ==
    IF Len(parts) = 2 THEN EndOfRange(SplitChar(parts[2], "."), ch)
    ELSE NoneInt

\* _OSIS_TO_CANON.get(t[0]) or resolve_alias(t[0]) or t[0]
OsisBook(osis_to_canon, token) ==
    Let(DictGet(osis_to_canon, token), LAMBDA canon :
        IF canon # NoneStr THEN canon ELSE AliasOrRaw(token))

\* the state after the osisRef of a reference tag is parsed: parts is the
\* key split at "-", t its first part split at "."
AfterOsisRef(st, osis_to_canon, parts, t) ==
    IF Len(t) < 3 THEN st
    ELSE IF ~(IsInt(t[2]) /\ IsInt(t[3])) THEN st
    ELSE IF st.current_kw # NoneStr
    THEN [st EXCEPT !.current_refs =
             Append(@, CrossReference(OsisBook(osis_to_canon, t[1]),
                                      IntOf(t[2]), IntOf(t[3]),
                                      VerseEnd(parts, IntOf(t[2]))))]
    ELSE st

\* the state after the reference tag matched by m, whose key is split into
\* parts at "-"
AfterTag(st, osis_to_canon, gap, parts) ==
    AfterOsisRef(AfterGap(st, Strip(ReSub(_HTML_TAG, <<>>, gap))),
                 osis_to_canon, parts, SplitChar(parts[1], "."))

RECURSIVE GroupsLoop(_, _, _, _, _)
\* the loop of _extract_keyword_groups over the reference tags ms of body,
\* from tag k on; last_end is where the tag before ended
GroupsLoop(body, osis_to_canon, ms, k, st) ==
    IF k > Len(ms)
    THEN WithGroup(st.groups, st.current_kw, st.current_refs)
    ELSE GroupsLoop(body, osis_to_canon, ms, k + 1,
             AfterTag(st, osis_to_canon,
                      \* Text gap between previous ref (or start) and this
                      \* ref
                      SubSeq(body, IF k = 1 THEN 1 ELSE ms[k - 1].end,
                             ms[k].start - 1),
                      SplitChar(Group(ms[k], body, 1), "-")))

\* the keyword groups of the body of the verse element
GroupsOfBody(body, osis_to_canon) ==
    IF body = <<>> THEN <<>>
    ELSE GroupsLoop(body, osis_to_canon, ReFindIter(full_ref, 1, body, 1), 1,
                    GroupState(<<>>, NoneStr, <<>>))

\* CommentaryBackend._extract_keyword_groups: extract keyword->refs groups
\* from TSK OSIS output; osis_to_canon is the table _OSIS_TO_CANON the
\* function imports
_extract_keyword_groups(text, osis_to_canon) ==
    GroupsOfBody(LongestVerse(text, ReFindIter(VerseElement, 1, text, 1)),
                 osis_to_canon)

\* Known dedicated cross-reference modules
CROSSREF_MODULES == <<<<"T", "S", "K">>, <<"C", "r", "o", "s", "s">>, <<"C", "r", "o", "s", "s", "R", "e", "f">>>>

\* Known commentary modules that contain cross-references
COMMENTARY_MODULES == <<<<"D", "u", "t", "K", "a", "n", "t">>, <<"M", "H", "C">>, <<"G", "e", "n", "e", "v", "a">>, <<"C", "a", "t", "e", "n", "a">>>>

\* CrossRefBackend.__init__: the backend as constructed
CrossRefBackend(crossref_module, commentary_modules) ==
    [_crossref_module |-> crossref_module,
     _commentary_modules |-> commentary_modules,
     _available_crossref |-> NoneStr,
     _available_commentaries |-> <<>>,
     _checked |-> FALSE]

\* CrossRefBackend._module_exists: check if a module is installed; installed
\* is the set of the modules for which the engine, run on the module,
\* returns 0 and does not report that it could "not be found" (a timeout
\* and an OSError count as not installed)
_module_exists(module, installed) == module \in installed

RECURSIVE FirstInstalled(_, _, _)
\* for mod in CROSSREF_MODULES: if self._module_exists(mod): ...; break
FirstInstalled(modules, installed, default) ==
    IF modules = <<>> THEN default
    ELSE IF _module_exists(Head(modules), installed) THEN Head(modules)
    ELSE FirstInstalled(Tail(modules), installed, default)

RECURSIVE Installed(_, _)
\* the modules of the list that are installed, in the order of the list
Installed(modules, installed) ==
    IF modules = <<>> THEN <<>>
    ELSE (IF _module_exists(Head(modules), installed) THEN <<Head(modules)>>
          ELSE <<>>)
         \o Installed(Tail(modules), installed)

\* CrossRefBackend._detect_modules: detect available cross-reference
\* modules; which is whether shutil.which finds the engine
_detect_modules(self, which, installed) ==
    IF ~which THEN [self EXCEPT !._checked = TRUE]
    ELSE [self EXCEPT
             !._checked = TRUE,
             \* Detect dedicated cross-ref module
             !._available_crossref =
                 IF self._crossref_module # NoneStr
                 THEN IF _module_exists(self._crossref_module, installed)
                      THEN self._crossref_module ELSE @
                 ELSE FirstInstalled(CROSSREF_MODULES, installed, @),
             \* Detect commentary modules
             !._available_commentaries =
                 @ \o Installed(IF self._commentary_modules # <<>>
                                THEN self._commentary_modules
                                ELSE COMMENTARY_MODULES, installed)]

\* what subprocess.run gives for one module: it raises TimeoutExpired or
\* OSError, or the engine exits with a return code and an output (modelled
\* as decoded: the decoding never fails, Latin-1 being the fallback)
Raised == [raised |-> TRUE, returncode |-> 0, stdout |-> <<>>]
Exited(returncode, stdout) ==
    [raised |-> FALSE, returncode |-> returncode, stdout |-> stdout]

\* CrossRefBackend._lookup_module: look up cross-references from a specific
\* module; run[module] is what subprocess.run gives for the module and ref
_lookup_module(ref, module, run) ==
    Let(run[module], LAMBDA proc :
        IF proc.raised THEN <<>>
        ELSE IF proc.returncode # 0 THEN <<>>
        \* Try scripRef tags first (common in commentaries)
        ELSE Let(_parse_scripref_tags(proc.stdout), LAMBDA refs :
                 IF refs # <<>> THEN refs
                 \* Fall back to plain reference parsing (for TSK-style
                 \* output)
                 ELSE _parse_plain_refs(proc.stdout)))

RECURSIVE MergeLoop(_, _, _)
\* the inner loop of lookup: each xref of refs not seen yet is appended,
\* with its module, to all_refs
MergeLoop(all_refs, refs, module) ==
    IF refs = <<>> THEN all_refs
    ELSE MergeLoop(IF \A k \in 1..Len(all_refs) :
                          Key(all_refs[k][1], 4) # Key(Head(refs), 4)
                   THEN Append(all_refs, <<Head(refs), module>>)
                   ELSE all_refs,
                   Tail(refs), module)

RECURSIVE LookupLoop(_, _, _, _, _)
\* the loop of lookup over the modules to query, from module k on
LookupLoop(ref, modules_to_query, k, run, all_refs) ==
    IF k > Len(modules_to_query) THEN all_refs
    ELSE LookupLoop(ref, modules_to_query, k + 1, run,
                    MergeLoop(all_refs,
                              _lookup_module(ref, modules_to_query[k], run),
                              modules_to_query[k]))

\* the sources lookup queries: the given ones, or else the detected ones
ModulesToQuery(self, sources) ==
    IF sources # <<>> THEN sources
    ELSE (IF self._available_crossref # NoneStr
          THEN <<self._available_crossref>> ELSE <<>>)
         \o self._available_commentaries

\* CrossRefBackend.lookup, once the modules are detected: look up
\* cross-references for a verse from all sources; a list of
\* (CrossReference, source_module) tuples
lookup(self, book, chapter, verse, sources, run) ==
    LookupLoop(\* Resolve book name
               diatheke_token(AliasOrRaw(book)) \o <<" ">>
               \o IntToStr(chapter) \o <<":">> \o IntToStr(verse),
               ModulesToQuery(self, sources), 1, run, <<>>)

-----------------------------------------------------------------------------
(* backend/diatheke.py: the search listing.                                *)

\* A search result hit
SearchHit(book, chapter, verse, snippet, match_start, match_end) ==
    [book |-> book, chapter |-> chapter, verse |-> verse,
     snippet |-> snippet, match_start |-> match_start,
     match_end |-> match_end]

\* r"^([\w\s]+)\s+(\d+):(\d+)\s*$"
_SEARCH_REF ==
    <<Grp(1, <<Plus(Cls(WordChars \cup WhiteSpace))>>),
      Plus(Cls(WhiteSpace)), Grp(2, <<Plus(Cls(Digits))>>), Lit(<<":">>),
      Grp(3, <<Plus(Cls(Digits))>>), Star(Cls(WhiteSpace)), Eol>>

\* Resolve book name
SearchBook(raw_book) ==
    Let(DictGet(DIATHEKE_TO_CANON, raw_book), LAMBDA book :
        IF book # NoneStr THEN book ELSE AliasOrRaw(raw_book))

\* the hit of a matched reference
HitOfMatch(ref, match) ==
    SearchHit(SearchBook(Strip(Group(match, ref, 1))),
              ParseInt(Group(match, ref, 2)), ParseInt(Group(match, ref, 3)),
              <<>>, 0, 0)

\* Parse reference: "Book Chapter:Verse"; the hits of one stripped ref (none
\* or one)
HitsOfRef(ref) ==
    IF ref = <<>> THEN <<>>
    ELSE Let(ReMatchAt(_SEARCH_REF, 3, ref, 1), LAMBDA match :
             IF match.ok THEN <<HitOfMatch(ref, match)>> ELSE <<>>)

RECURSIVE HitsOfRefs(_, _)
\* for ref in refs, from ref k on
HitsOfRefs(refs, k) ==
    IF k > Len(refs) THEN <<>>
    ELSE HitsOfRef(Strip(refs[k])) \o HitsOfRefs(refs, k + 1)

\* Split by " ; " to handle multiple references per line
HitsOfRefLine(line) == HitsOfRefs(ReSplit(<<Lit(<<" ", ";", " ">>)>>, line), 1)

\* Extract part after "--": line.split("--", 1)[1].strip()
AfterDashes(line, dashes) == Strip(SubSeq(line, dashes.end, Len(line)))

\* the hits of a line when the whole header line is skipped
HitsOfLine_skip_header(line) ==
    IF line = <<>> THEN <<>>
    ELSE IF StartsWith(line, <<"E", "n", "t", "r", "i", "e", "s", " ", "c", "o", "n", "t", "a", "i", "n", "i", "n", "g">>) \/ StartsWith(line, <<"-", "-">>)
    THEN <<>>
    ELSE HitsOfRefLine(line)

\* the hits of one stripped line of the listing
HitsOfLine(line) ==
    IF line = <<>> THEN <<>>
    \* Skip header and footer lines
    ELSE IF StartsWith(line, <<"E", "n", "t", "r", "i", "e", "s", " ", "c", "o", "n", "t", "a", "i", "n", "i", "n", "g">>) \/ StartsWith(line, <<"-", "-">>)
    \* But the header line may contain the first result after "--"
    THEN IF HasText(line, <<"-", "-">>) /\ ~StartsWith(line, <<"-", "-">>)
         THEN HitsOfRefLine(AfterDashes(line,
                                        ReSearch(<<Lit(<<"-", "-">>)>>, 0, line, 1)))
         ELSE <<>>
    ELSE HitsOfRefLine(line)

RECURSIVE HitsOfLines(_, _)
\* for line in text.strip().splitlines(), from line k on
HitsOfLines(lines, k) ==
    IF k > Len(lines) THEN <<>>
    ELSE HitsOfLine(Strip(lines[k])) \o HitsOfLines(lines, k + 1)

\* str.find(w), from 0; -1 when w is not in s
StrFind(s, w) ==
    Let({i \in 1..(Len(s) + 1) : HasAt(s, i, w, FALSE)}, LAMBDA starts :
        IF starts = {} THEN -1 ELSE SetMin(starts) - 1)

\* the hit with the text of its verse and the position of the query in it
HitWithText(hit, text, query, pos) ==
    IF pos >= 0
    THEN SearchHit(hit.book, hit.chapter, hit.verse, text, pos,
                   pos + Len(query))
    ELSE SearchHit(hit.book, hit.chapter, hit.verse, text, 0, 0)

\* Fetch verse text for each hit if requested; seg is what lookup_verse
\* gives for the hit, None (NoneStr) or the segment
WithSnippet(hit, seg, query) ==
    IF seg = NoneStr THEN hit
    ELSE HitWithText(hit, seg.text, query,
                     StrFind(Lower(seg.text), Lower(query)))

\* DiathekeBackend._parse_search: parse diatheke search output;
\* lookup_verse[i] is what lookup_verse gives for hit i
_parse_search(text, query, fetch_snippets, lookup_verse) ==
    Let(HitsOfLines(SplitLines(Strip(text)), 1), LAMBDA hits :
        IF fetch_snippets
        THEN [i \in 1..Len(hits) |->
                 WithSnippet(hits[i], lookup_verse[i], query)]
        ELSE hits)

-----------------------------------------------------------------------------
(* backend/dictionary.py: dictionary entries for Strong's numbers.         *)

\* A parsed dictionary entry
DictionaryEntry(module, key, title, greek_word, transliteration, pronunciation, definition, raw_text) ==
    [module |-> module, key |-> key, title |-> title,
     greek_word |-> greek_word, transliteration |-> transliteration,
     pronunciation |-> pronunciation, definition |-> definition,
     raw_text |-> raw_text]

\* any character, as "." under re.DOTALL
AnyChar == NotCls({})

\* <tag[^>]*>([^<]+)</tag>, and the same with ([^<]*)
TagWithText(tag) ==
    <<Lit(<<"<">> \o tag), Star(NotCls({">"})), Lit(<<">">>),
      Grp(1, <<Plus(NotCls({"<"}))>>), Lit(<<"<", "/">> \o tag \o <<">">>)>>
TagWithAnyText(tag) ==
    <<Lit(<<"<">> \o tag), Star(NotCls({">"})), Lit(<<">">>),
      Grp(1, <<Star(NotCls({"<"}))>>), Lit(<<"<", "/">> \o tag \o <<">">>)>>
\* <tag[^>]*>(.*?)</tag> under re.DOTALL
TagWithContent(tag) ==
    <<Lit(<<"<">> \o tag), Star(NotCls({">"})), Lit(<<">">>),
      Grp(1, <<LazyStar(AnyChar)>>), Lit(<<"<", "/">> \o tag \o <<">">>)>>

\* Regex patterns for parsing dictionary XML output
_ENTRY_FREE == TagWithContent(<<"e", "n", "t", "r", "y", "F", "r", "e", "e">>)
_TITLE == <<Lit(<<"<", "t", "i", "t", "l", "e", ">">>), Grp(1, <<Plus(NotCls({"<"}))>>), Lit(<<"<", "/", "t", "i", "t", "l", "e", ">">>)>>
_ORTH == TagWithText(<<"o", "r", "t", "h">>)
_ORTH_TRANS ==
    <<Lit(<<"<", "o", "r", "t", "h">>), Star(NotCls({">"})), Lit(<<"t", "y", "p", "e", "=", "\"", "t", "r", "a", "n", "s", "\"">>),
      Star(NotCls({">"})), Lit(<<">">>), Grp(1, <<Plus(NotCls({"<"}))>>),
      Lit(<<"<", "/", "o", "r", "t", "h", ">">>)>>
_PRON == TagWithText(<<"p", "r", "o", "n">>)
_DEF == <<Lit(<<"<", "d", "e", "f", ">">>), Grp(1, <<LazyStar(AnyChar)>>), Lit(<<"<", "/", "d", "e", "f", ">">>)>>
\* Pattern for foreign language tags (Hebrew/Greek words in BDB)
_FOREIGN == TagWithText(<<"f", "o", "r", "e", "i", "g", "n">>)
\* Patterns for cleaning definition content
_REF_TAG == TagWithAnyText(<<"r", "e", "f">>)
_HI_TAG == TagWithAnyText(<<"h", "i">>)
_FOREIGN_TAG == TagWithAnyText(<<"f", "o", "r", "e", "i", "g", "n">>)
_NOTE_TAG == TagWithContent(<<"n", "o", "t", "e">>)
_LB_TAG ==
    <<Lit(<<"<", "l", "b">>), Star(Cls(WhiteSpace)), Opt(<<Lit(<<"/">>)>>), Lit(<<">">>)>>

\* the bullet character U+2022 of the definitions, written here with a
\* character that the texts do not hold
Bullet == "·"

RECURSIVE SubMatchesFrom(_, _, _, _, _)
\* s from position i on, with the matches ms from match k on replaced by
\* the texts repls
SubMatchesFrom(s, ms, repls, k, i) ==
    IF k > Len(ms) THEN SubSeq(s, i, Len(s))
    ELSE SubSeq(s, i, ms[k].start - 1) \o repls[k]
         \o SubMatchesFrom(s, ms, repls, k + 1, ms[k].end)

\* the matches ms of s replaced by before, group 1, after
SubGroups(s, ms, before, after) ==
    SubMatchesFrom(s, ms,
                   [k \in 1..Len(ms) |-> before \o Group(ms[k], s, 1) \o after],
                   1, 1)

\* re.sub(rs, before + r'\1' + after, s), for a pattern that matches no
\* empty text
ReSubGroup(rs, before, after, s) ==
    SubGroups(s, ReFindIter(rs, 1, s, 1), before, after)

\* pattern.findall(s), for a pattern with one group
FindAll(rs, s) ==
    Let(ReFindIter(rs, 1, s, 1), LAMBDA ms :
        [k \in 1..Len(ms) |-> Group(ms[k], s, 1)])

\* str.isdigit() and str.isalpha(), over the characters of the texts
IsDigit(s) == s # <<>> /\ \A k \in 1..Len(s) : s[k] \in Digits \cup {"¹", "²", "³"}
IsAlpha(s) ==
    s # <<>> /\ \A k \in 1..Len(s) : s[k] \in AsciiLetters \cup AccentedLetters

\* _clean_definition.format_sense_open: numbers (1, 2, 3) get their own
\* line, letters (a, b, c) are indented
format_sense_open(n) ==
    IF IsDigit(n) THEN <<"\n">> \o n \o <<".", " ">>
    ELSE IF IsAlpha(n) /\ Len(n) = 1 THEN <<"\n", " ", " ", " ">> \o n \o <<".", " ">>
    ELSE <<"\n", Bullet, " ">>

\* re.sub(r'<sense[^>]*n="([^"]*)"[^>]*>', format_sense_open, text)
SenseOpenWithN ==
    <<Lit(<<"<", "s", "e", "n", "s", "e">>), Star(NotCls({">"})), Lit(<<"n", "=", "\"">>),
      Grp(1, <<Star(NotCls({"\""}))>>), Lit(<<"\"">>), Star(NotCls({">"})),
      Lit(<<">">>)>>
SubSenseOpen(text, ms) ==
    SubMatchesFrom(text, ms,
                   [k \in 1..Len(ms) |->
                       format_sense_open(Group(ms[k], text, 1))],
                   1, 1)

\* the replacements of _clean_definition up to the unescaping: reference,
\* highlight and foreign tags by their text, sense tags by line prefixes,
\* notes by nothing, <lb/> by a line break, any remaining tag by a space
WithoutTags(raw_def) ==
    ReSub(_HTML_TAG, <<" ">>,
      ReSub(_LB_TAG, <<"\n">>,
        ReSub(_NOTE_TAG, <<>>,
          ReSub(<<Lit(<<"<", "/", "s", "e", "n", "s", "e", ">">>)>>, <<>>,
            ReSub(<<Lit(<<"<", "s", "e", "n", "s", "e">>), Star(NotCls({">"})), Lit(<<">">>)>>,
                  <<"\n", Bullet, " ">>,
              Let(ReSubGroup(_FOREIGN_TAG, <<>>, <<>>,
                    ReSubGroup(_HI_TAG, <<>>, <<>>,
                      ReSubGroup(_REF_TAG, <<>>, <<>>, raw_def))),
                  LAMBDA text :
                      SubSenseOpen(text,
                                   ReFindIter(SenseOpenWithN, 1, text, 1))))))))

\* Remove leading ". " artifacts from sense content
WithoutArtifacts(text) ==
    ReSub(<<Lit(<<"\n", Bullet, " ", ".", " ">>)>>, <<"\n", Bullet, " ">>,
      ReSubGroup(<<Lit(<<"\n">>),
                   Grp(1, <<Lit(<<" ", " ", " ">>), Cls(LowerAscii), Lit(<<".">>)>>),
                   Lit(<<" ", ".", " ">>)>>, <<"\n">>, <<" ">>,
        ReSubGroup(<<Lit(<<"\n">>), Grp(1, <<Plus(Cls(Digits)), Lit(<<".">>)>>),
                     Lit(<<" ", ".", " ">>)>>, <<"\n">>, <<" ">>, text)))

\* a line of the definition with its whitespace normalized and the leading
\* word removed if specified (already in title)
CleanedLine(line, remove_leading_word) ==
    Let(Strip(ReSub(_WHITESPACE, <<" ">>, line)), LAMBDA cleaned :
        IF cleaned # <<>> /\ remove_leading_word # <<>>
           /\ StartsWith(cleaned, remove_leading_word)
        THEN Strip(SubSeq(cleaned, Len(remove_leading_word) + 1,
                          Len(cleaned)))
        ELSE cleaned)

\* the cleaned lines that are not empty, joined
CleanedLines(lines, remove_leading_word) ==
    Join(SelectSeq([k \in 1..Len(lines) |->
                       CleanedLine(lines[k], remove_leading_word)],
                   LAMBDA cleaned : cleaned # <<>>),
         <<"\n">>)

\* _clean_definition: clean XML tags from definition text for
\* human-readable output
_clean_definition(raw_def, remove_leading_word) ==
    CleanedLines(SplitChar(WithoutArtifacts(html_unescape(WithoutTags(raw_def))),
                           "\n"),
                 remove_leading_word)

\* what _parse_entry extracts from the raw text
EntryFields(greek_word, transliteration, pronunciation, definition) ==
    [greek_word |-> greek_word, transliteration |-> transliteration,
     pronunciation |-> pronunciation, definition |-> definition]

\* str.strip("'") after str.strip()
StripQuoted(s) == RStripSet(LStripSet(Strip(s), {"'"}), {"'"})

\* match.group(1).strip() if match else ""
StrippedGroup(m, s) == IF m.ok THEN Strip(Group(m, s, 1)) ELSE <<>>

\* Extract Greek/Hebrew word (first <orth> without type="trans")
FirstOrth(orth_matches, trans_matches) ==
    Let({k \in 1..Len(orth_matches) :
            \A j \in 1..Len(trans_matches) :
                trans_matches[j] # orth_matches[k]},
        LAMBDA hits : IF hits = {} THEN <<>>
                      ELSE Strip(orth_matches[SetMin(hits)]))

\* If no <orth>, try <foreign> tag (used by BDBGlosses_Strongs)
OrthOrForeign(orth, foreign_matches) ==
    IF orth # <<>> THEN orth
    ELSE IF foreign_matches # <<>> THEN Strip(foreign_matches[1])
    ELSE <<>>

\* Extract definition and clean XML tags; with no <def> tag, use entire
\* content minus title as definition
XmlDefinition(entry_content, greek_word, def_match) ==
    IF def_match.ok
    THEN _clean_definition(Group(def_match, entry_content, 1), greek_word)
    ELSE _clean_definition(ReSub(_TITLE, <<>>, entry_content), greek_word)

\* the fields of an entry_content with the given transliterations and word
XmlFields(entry_content, trans_matches, greek_word) ==
    EntryFields(greek_word,
                IF trans_matches # <<>> THEN Strip(trans_matches[1])
                ELSE <<>>,
                StrippedGroup(ReSearch(_PRON, 1, entry_content, 1),
                              entry_content),
                XmlDefinition(entry_content, greek_word,
                              ReSearch(_DEF, 1, entry_content, 1)))

\* the fields of the content of the entryFree element
XmlContent(entry_content, trans_matches) ==
    XmlFields(entry_content, trans_matches,
              OrthOrForeign(FirstOrth(FindAll(_ORTH, entry_content),
                                      trans_matches),
                            FindAll(_FOREIGN, entry_content)))

\* _parse_entry: try to extract from XML structure
XmlStage(raw_text, entry_match) ==
    IF entry_match.ok
    THEN Let(Group(entry_match, raw_text, 1), LAMBDA entry_content :
             XmlContent(entry_content, FindAll(_ORTH_TRANS, entry_content)))
    ELSE EntryFields(<<>>, <<>>, <<>>, <<>>)

\* <br\s*/?>
BrTag == <<Lit(<<"<", "b", "r">>), Star(Cls(WhiteSpace)), Opt(<<Lit(<<"/">>)>>), Lit(<<">">>)>>

\* r'<br\s*/?>\s*([^\[<\n]+?)\s*<br'
HebrewWord ==
    BrTag \o <<Star(Cls(WhiteSpace)),
               Grp(1, <<LazyPlus(NotCls({"[", "<", "\n"}))>>),
               Star(Cls(WhiteSpace)), Lit(<<"<", "b", "r">>)>>

\* the word of the Hebrew format (word after <br />, before next <br),
\* unless it's just a number
WordAfterBr(potential_word) ==
    IF potential_word # <<>> /\ ~IsDigit(potential_word) THEN potential_word
    ELSE <<>>

RECURSIVE FirstBold(_, _, _)
\* the first <b>word</b> that is not just a number (entry ID)
FirstBold(raw_text, ms, k) ==
    IF k > Len(ms) THEN <<>>
    ELSE IF WordAfterBr(Strip(Group(ms[k], raw_text, 1))) # <<>>
    THEN Strip(Group(ms[k], raw_text, 1))
    ELSE FirstBold(raw_text, ms, k + 1)

\* the word of the StrongsReal HTML formats
HtmlWord(raw_text, greek_word, hebrew) ==
    IF hebrew # <<>> THEN hebrew
    ELSE IF greek_word # <<>> THEN greek_word
    ELSE FirstBold(raw_text,
                   ReFindIter(<<Lit(<<"<", "b", ">">>), Grp(1, <<Plus(NotCls({"<"}))>>),
                                Lit(<<"<", "/", "b", ">">>)>>, 1, raw_text, 1),
                   1)

\* Betacode uses uppercase and special chars like A)GAPA/W:
\* r'^[A-Z/)(\\_=+|]+$'
Betacode ==
    <<Plus(Cls(UpperAscii \cup {"/", ")", "(", "\\", "_", "=", "+", "|"})),
      Eol>>

\* the transliteration of the HTML formats: [...] unless it is betacode,
\* then {word} within the first 200 chars
HtmlTransliteration(raw_text, transliteration, trans_match) ==
    IF ~trans_match.ok THEN transliteration
    ELSE Let(StripQuoted(Group(trans_match, raw_text, 1)), LAMBDA potential :
             IF ~ReMatchAt(Betacode, 0, potential, 1).ok THEN potential
             ELSE Let(SubSeq(raw_text, 1,
                             IF Len(raw_text) < 200 THEN Len(raw_text)
                             ELSE 200),
                      LAMBDA early_text :
                          Let(ReSearch(<<Lit(<<"{">>),
                                         Grp(1, <<Plus(NotCls({"}"}))>>),
                                         Lit(<<"}">>)>>, 1, early_text, 1),
                              LAMBDA curly_match :
                                  IF curly_match.ok
                                  THEN Strip(Group(curly_match, early_text, 1))
                                  ELSE transliteration)))

\* Extract pronunciation in \<i>...</i>\ or <i>...</i>
HtmlPronunciation(raw_text, pronunciation, pron_match) ==
    IF pron_match.ok THEN StripQuoted(Group(pron_match, raw_text, 1))
    ELSE pronunciation

\* r'</i>\\?\s*<br\s*/?>\s*(.+?)(?:\n?\([A-Za-z]+\))?$' under re.DOTALL
HtmlDefinitionPattern ==
    <<Lit(<<"<", "/", "i", ">">>), Opt(<<Lit(<<"\\">>)>>), Star(Cls(WhiteSpace))>> \o BrTag
    \o <<Star(Cls(WhiteSpace)), Grp(1, <<LazyPlus(AnyChar)>>),
         Opt(<<Opt(<<Lit(<<"\n">>)>>), Lit(<<"(">>), Plus(Cls(AsciiLetters)),
               Lit(<<")">>)>>),
         Eol>>

\* Clean HTML: convert <a href...>X</a> to X, <i>...</i> to text, etc.
CleanHtml(def_text) ==
    Let(ReSubGroup(TagWithAnyText(<<"a">>), <<>>, <<>>, def_text), LAMBDA t1 :
    Let(ReSub(<<Lit(<<"<">>), Opt(<<Lit(<<"/">>)>>), Lit(<<"i", ">">>)>>, <<>>, t1),
        LAMBDA t2 :
    Let(ReSub(<<Lit(<<"<">>), Opt(<<Lit(<<"/">>)>>), Lit(<<"b", ">">>)>>, <<>>, t2),
        LAMBDA t3 :
    Let(ReSub(_HTML_TAG, <<>>, ReSub(BrTag, <<" ">>, t3)), LAMBDA t4 :
        Strip(ReSub(_WHITESPACE, <<" ">>, html_unescape(t4)))))))

\* Extract definition (after transliteration/pronunciation, before module
\* name)
HtmlDefinition(raw_text, definition, def_match) ==
    IF def_match.ok THEN CleanHtml(Group(def_match, raw_text, 1))
    ELSE definition

\* _parse_entry: try StrongsReal HTML formats
HtmlStage(raw_text, f) ==
    EntryFields(
        HtmlWord(raw_text, f.greek_word,
                 WordAfterBr(StrippedGroup(ReSearch(HebrewWord, 1, raw_text, 1),
                                           raw_text))),
        HtmlTransliteration(raw_text, f.transliteration,
            ReSearch(<<Lit(<<"[">>), Grp(1, <<Plus(NotCls({"]"}))>>), Lit(<<"]">>)>>,
                     1, raw_text, 1)),
        HtmlPronunciation(raw_text, f.pronunciation,
            ReSearch(<<Opt(<<Lit(<<"\\">>)>>), Lit(<<"<", "i", ">">>),
                       Grp(1, <<Plus(NotCls({"<"}))>>), Lit(<<"<", "/", "i", ">">>),
                       Opt(<<Lit(<<"\\">>)>>)>>, 1, raw_text, 1)),
        HtmlDefinition(raw_text, f.definition,
                       ReSearch(HtmlDefinitionPattern, 1, raw_text, 1)))

\* Parse first line: "NNNNN:  NNN  word  pronunciation":
\* r"\d+:\s+\d+\s+'?(\S+)\s+(\S+)'?"
FirstLine ==
    <<Plus(Cls(Digits)), Lit(<<":">>), Plus(Cls(WhiteSpace)), Plus(Cls(Digits)),
      Plus(Cls(WhiteSpace)), Opt(<<Lit(<<"'">>)>>),
      Grp(1, <<Plus(NotCls(WhiteSpace))>>), Plus(Cls(WhiteSpace)),
      Grp(2, <<Plus(NotCls(WhiteSpace))>>), Opt(<<Lit(<<"'">>)>>)>>

\* r'^\([A-Za-z]+\)$'
Attribution == <<Lit(<<"(">>), Plus(Cls(AsciiLetters)), Lit(<<")">>), Eol>>

\* Rest is definition (skip empty lines and module attribution)
PlainDefinition(lines) ==
    Let(SelectSeq([k \in 1..(Len(lines) - 1) |-> Strip(lines[k + 1])],
                  LAMBDA line : line # <<>>
                                /\ ~ReMatchAt(Attribution, 0, line, 1).ok),
        LAMBDA def_lines :
            \* Normalize whitespace
            Strip(ReSub(_WHITESPACE, <<" ">>, Join(def_lines, <<" ">>))))

\* the fields of the plain text format whose first line is matched
PlainFields(f, lines, first_match) ==
    IF first_match.ok
    THEN EntryFields(f.greek_word,
                     RStripSet(LStripSet(Group(first_match, lines[1], 1),
                                         {"'"}), {"'"}),
                     RStripSet(LStripSet(Group(first_match, lines[1], 2),
                                         {"'"}), {"'"}),
                     PlainDefinition(lines))
    ELSE f

\* _parse_entry: try plain text Strong's format
PlainStage(raw_text, f) ==
    Let(SplitChar(Strip(raw_text), "\n"), LAMBDA lines :
        PlainFields(f, lines, ReMatchAt(FirstLine, 2, lines[1], 1)))

\* Generic fallback: strip HTML tags
GenericFallback(raw_text) ==
    Strip(ReSub(_WHITESPACE, <<" ">>,
                html_unescape(ReSub(_HTML_TAG, <<" ">>, raw_text))))

\* if not definition: definition = plain
WithFallback(raw_text, f) ==
    IF f.definition = <<>>
    THEN [f EXCEPT !.definition = GenericFallback(raw_text)]
    ELSE f

\* the StrongsReal HTML formats when the text has <br />, <br/> or <b>,
\* otherwise the plain text Strong's format
DialectStage(raw_text, f) ==
    IF HasText(raw_text, <<"<", "b", "r", " ", "/", ">">>) \/ HasText(raw_text, <<"<", "b", "r", "/", ">">>)
       \/ HasText(raw_text, <<"<", "b", ">">>)
    THEN HtmlStage(raw_text, f)
    ELSE PlainStage(raw_text, f)

\* If XML parsing didn't work, try other formats
OtherFormats(raw_text, f) ==
    IF f.greek_word = <<>> /\ f.definition = <<>>
    THEN WithFallback(raw_text, DialectStage(raw_text, f))
    ELSE f

\* Build title
Title(strongs_number, greek_word, transliteration) ==
    IF greek_word # <<>> /\ transliteration # <<>>
    THEN strongs_number \o <<" ", "-", " ">> \o greek_word \o <<" ", "(">> \o transliteration
         \o <<")">>
    ELSE IF greek_word # <<>> THEN strongs_number \o <<" ", "-", " ">> \o greek_word
    ELSE IF transliteration # <<>>
    THEN strongs_number \o <<" ", "-", " ">> \o transliteration
    ELSE strongs_number

\* the entry with the fields f
EntryOf(module, strongs_number, raw_text, f) ==
    DictionaryEntry(module, strongs_number,
                    Title(strongs_number, f.greek_word, f.transliteration),
                    f.greek_word, f.transliteration, f.pronunciation,
                    f.definition, raw_text)

\* DictionaryBackend._parse_entry: parse dictionary XML output into a
\* DictionaryEntry
_parse_entry(module, strongs_number, raw_text) ==
    EntryOf(module, strongs_number, raw_text,
            OtherFormats(raw_text,
                         XmlStage(raw_text,
                                  ReSearch(_ENTRY_FREE, 1, raw_text, 1))))

\* str.upper()
Upper(s) ==
    [i \in 1..Len(s) |->
        IF s[i] \in LowerAscii
        THEN UpperSeq[CHOOSE k \in 1..Len(LowerSeq) : LowerSeq[k] = s[i]]
        ELSE s[i]]

RECURSIVE ZFill(_, _)
\* str.zfill(width) of a string of digits
ZFill(s, width) == IF Len(s) >= width THEN s ELSE ZFill(<<"0">> \o s, width)

\* None for an Optional[DictionaryEntry]
NoEntry == <<>>

\* DictionaryBackend.__init__
DictionaryBackend(available) == [available |-> available]

\* no DictionaryBackend
NoBackend == <<>>

\* _lookup_single: verify we got the right entry (got_correct_entry), for
\* a process that has exited
GotCorrectEntry(strongs_number, number, proc) ==
    /\ proc.returncode = 0
    /\ ~HasText(proc.stdout, <<"E", "n", "t", "r", "y", " ", "n", "o", "t", " ", "f", "o", "u", "n", "d">>)
    /\ \/ HasText(proc.stdout,
                  <<"<", "t", "i", "t", "l", "e", ">">> \o Upper(strongs_number) \o <<"<", "/", "t", "i", "t", "l", "e", ">">>)
       \/ StartsWith(Strip(proc.stdout), ZFill(number, 5) \o <<":">>)
       \/ StartsWith(Strip(proc.stdout), number \o <<":">>)

\* the entry with the stripped output raw, if it has one
EntryOfRaw(module, strongs_number, raw) ==
    IF raw = <<>> \/ HasText(raw, <<"E", "n", "t", "r", "y", " ", "n", "o", "t", " ", "f", "o", "u", "n", "d">>) THEN NoEntry
    ELSE _parse_entry(module, strongs_number, raw)

\* _lookup_single, once the last process has exited: the entry of its
\* output
EntryOfProc(module, strongs_number, proc) ==
    IF proc.returncode # 0 THEN NoEntry
    ELSE EntryOfRaw(module, strongs_number, Strip(proc.stdout))

\* DictionaryBackend._lookup_single: look up a single dictionary entry;
\* numeric and prefixed are what subprocess.run gives for the number and for
\* the full key (the second is run only if the first is not the right entry)
_lookup_single(strongs_number, number, module, numeric, prefixed) ==
    IF numeric.raised THEN NoEntry
    ELSE IF GotCorrectEntry(strongs_number, number, numeric)
    THEN EntryOfProc(module, strongs_number, numeric)
    ELSE IF prefixed.raised THEN NoEntry
    ELSE EntryOfProc(module, strongs_number, prefixed)

RECURSIVE ModulesLoop_stop_at_failure(_, _, _, _, _, _)
\* the loop that gives up at the first module without an entry
ModulesLoop_stop_at_failure(strongs_number, number, modules, k, run, entries) ==
    IF k > Len(modules) THEN entries
    ELSE Let(_lookup_single(strongs_number, number, modules[k],
                            run[modules[k]].numeric,
                            run[modules[k]].prefixed),
             LAMBDA entry :
                 IF entry = NoEntry THEN entries
                 ELSE ModulesLoop_stop_at_failure(strongs_number, number,
                                                  modules, k + 1, run,
                                                  Append(entries, entry)))

RECURSIVE ModulesLoop(_, _, _, _, _, _)
\* the loop of lookup_strongs over the modules, from module k on
ModulesLoop(strongs_number, number, modules, k, run, entries) ==
    IF k > Len(modules) THEN entries
    ELSE Let(_lookup_single(strongs_number, number, modules[k],
                            run[modules[k]].numeric,
                            run[modules[k]].prefixed),
             LAMBDA entry :
                 ModulesLoop(strongs_number, number, modules, k + 1, run,
                             IF entry # NoEntry THEN Append(entries, entry)
                             ELSE entries))

\* r'[GH]?(\d+)'
StrongsNumber ==
    <<Opt(<<Cls({"G", "H"})>>), Grp(1, <<Plus(Cls(Digits))>>)>>

\* the digits of the upper-cased number after its match
NumberOf(upper, num_match) == Group(num_match, upper, 1)

\* DictionaryBackend.lookup_strongs: look up a Strong's number in multiple
\* dictionary modules; run[module] is what subprocess.run gives for the
\* module
lookup_strongs(self, strongs_number, modules, run) ==
    IF ~self.available \/ strongs_number = <<>> THEN <<>>
    ELSE Let(ReMatchAt(StrongsNumber, 1, Upper(strongs_number), 1),
             LAMBDA num_match :
                 IF ~num_match.ok THEN <<>>
                 ELSE ModulesLoop(strongs_number,
                                  NumberOf(Upper(strongs_number), num_match),
                                  modules, 1, run, <<>>))

-----------------------------------------------------------------------------
(* jumplist.py: navigation history with back and forward.                  *)

\* MAX_ENTRIES
MAX_ENTRIES == 100

\* A single location in the jumplist
JumpEntry(book, chapter, verse) ==
    [book |-> book, chapter |-> chapter, verse |-> verse]

\* None for an Optional[JumpEntry], which is otherwise the one-element
\* sequence of its value
NoJump == <<>>

\* a JumpList with the given fields
JumpListOf(_entries, _cursor) == [_entries |-> _entries, _cursor |-> _cursor]

\* JumpList.__init__: -1 means "at the end" (no history yet)
JumpList == JumpListOf(<<>>, -1)

\* what a method leaves of its object and what it returns
Result(self, value) == [self |-> self, value |-> value]

\* list[:n] and list[-n:], for n >= 0
ListHead(list, n) == SubSeq(list, 1, IF n < Len(list) THEN n ELSE Len(list))
ListTail(list, n) ==
    SubSeq(list, IF n < Len(list) THEN Len(list) - n + 1 ELSE 1, Len(list))

\* record: truncate forward history if we are not at the end
Truncated(self) ==
    IF Len(self._entries) > 0 /\ self._cursor < Len(self._entries) - 1
    THEN ListHead(self._entries, self._cursor + 1)
    ELSE self._entries

\* record: enforce max size
Capped(_entries) ==
    IF Len(_entries) > MAX_ENTRIES THEN ListTail(_entries, MAX_ENTRIES)
    ELSE _entries

\* the list with its cursor on the last entry
AtEnd(_entries) == JumpListOf(_entries, Len(_entries) - 1)

\* record that keeps the forward history
record_keeping_forward(self, book, chapter, verse) ==
    Result(AtEnd(Capped(Append(self._entries,
                               JumpEntry(book, chapter, verse)))),
           NoJump)

\* JumpList.record: record current location before a jump
record(self, book, chapter, verse) ==
    Result(AtEnd(Capped(Append(Truncated(self),
                               JumpEntry(book, chapter, verse)))),
           NoJump)

\* back: if at the end, save current position so we can come back; only
\* append if different from the last entry
Saved(self, current) ==
    IF /\ self._cursor = Len(self._entries) - 1
       /\ self._entries[Len(self._entries)] # current
    THEN AtEnd(Append(self._entries, current))
    ELSE self

\* back and forward, once the cursor may move: the entry moved to
MovedBack(self) ==
    IF self._cursor <= 0 THEN Result(self, NoJump)
    ELSE Result(JumpListOf(self._entries, self._cursor - 1),
                <<self._entries[self._cursor]>>)

\* back that does not save the current position
back_without_saving(self, current_book, current_chapter, current_verse) ==
    IF Len(self._entries) = 0 THEN Result(self, NoJump) ELSE MovedBack(self)

\* JumpList.back: go back in history (Ctrl+O)
back(self, current_book, current_chapter, current_verse) ==
    IF Len(self._entries) = 0 THEN Result(self, NoJump)
    ELSE MovedBack(Saved(self, JumpEntry(current_book, current_chapter,
                                         current_verse)))

\* JumpList.forward: go forward in history (Ctrl+I)
forward(self) ==
    IF Len(self._entries) = 0 THEN Result(self, NoJump)
    ELSE IF self._cursor >= Len(self._entries) - 1 THEN Result(self, NoJump)
    ELSE Result(JumpListOf(self._entries, self._cursor + 1),
                <<self._entries[self._cursor + 2]>>)

\* jump_to that takes the index as it is given
jump_to_unchecked(self, index) ==
    Result(JumpListOf(self._entries, index),
           IF index \in 0..(Len(self._entries) - 1)
           THEN <<self._entries[index + 1]>>
           ELSE NoJump)

\* JumpList.jump_to: set cursor to given index and return the entry
jump_to(self, index) ==
    IF Len(self._entries) = 0 \/ index < 0 \/ index >= Len(self._entries)
    THEN Result(self, NoJump)
    ELSE Result(JumpListOf(self._entries, index), <<self._entries[index + 1]>>)

-----------------------------------------------------------------------------
(* tab_state.py: the tab list.                                             *)

\* TabManager.MAX_TABS
MAX_TABS == 9

\* TabState(): the defaults of the fields; the jumplist is session-only
DefaultTabState ==
    [name |-> <<>>,
     book |-> <<"G", "e", "n", "e", "s", "i", "s">>,
     chapter |-> 1,
     verse |-> 1,
     module |-> <<"D", "u", "t", "S", "V", "V">>,
     in_parallel_mode |-> FALSE,
     in_study_mode |-> FALSE,
     in_strongs_mode |-> FALSE,
     in_crossref_mode |-> FALSE,
     in_jumplist_mode |-> FALSE,
     secondary_module |-> <<>>,
     right_book |-> <<"G", "e", "n", "e", "s", "i", "s">>,
     right_chapter |-> 1,
     panes_linked |-> TRUE,
     active_pane |-> <<"l", "e", "f", "t">>,
     study_commentary_module |-> <<"D", "u", "t", "K", "a", "n", "t">>,
     study_active_pane |-> 0,
     study_include_bible_xrefs |-> FALSE,
     strongs_filter |-> FALSE,
     footnotes_filter |-> FALSE,
     crossref_pane_focused |-> FALSE,
     strongs_pane_focused |-> FALSE,
     _jumplist_ref |-> JumpList]

\* TabState(book=book): a snapshot of all per-tab state
TabState(book) == [DefaultTabState EXCEPT !.book = book]

\* dict.get(key, default)
Get(data, key, default) ==
    IF key \in DOMAIN data THEN data[key] ELSE default

\* to_dict that leaves the verse out
to_dict_without_verse(self) ==
    [name |-> self.name,
     book |-> self.book,
     chapter |-> self.chapter,
     module |-> self.module,
     in_parallel_mode |-> self.in_parallel_mode,
     in_study_mode |-> self.in_study_mode,
     in_strongs_mode |-> self.in_strongs_mode,
     in_crossref_mode |-> self.in_crossref_mode,
     in_jumplist_mode |-> self.in_jumplist_mode,
     secondary_module |-> self.secondary_module,
     right_book |-> self.right_book,
     right_chapter |-> self.right_chapter,
     panes_linked |-> self.panes_linked,
     active_pane |-> self.active_pane,
     study_commentary_module |-> self.study_commentary_module,
     study_active_pane |-> self.study_active_pane,
     study_include_bible_xrefs |-> self.study_include_bible_xrefs,
     strongs_filter |-> self.strongs_filter,
     footnotes_filter |-> self.footnotes_filter,
     crossref_pane_focused |-> self.crossref_pane_focused,
     strongs_pane_focused |-> self.strongs_pane_focused]

\* TabState.to_dict: serialize for config.json (without jumplist)
to_dict(self) ==
    [name |-> self.name,
     book |-> self.book,
     chapter |-> self.chapter,
     verse |-> self.verse,
     module |-> self.module,
     in_parallel_mode |-> self.in_parallel_mode,
     in_study_mode |-> self.in_study_mode,
     in_strongs_mode |-> self.in_strongs_mode,
     in_crossref_mode |-> self.in_crossref_mode,
     in_jumplist_mode |-> self.in_jumplist_mode,
     secondary_module |-> self.secondary_module,
     right_book |-> self.right_book,
     right_chapter |-> self.right_chapter,
     panes_linked |-> self.panes_linked,
     active_pane |-> self.active_pane,
     study_commentary_module |-> self.study_commentary_module,
     study_active_pane |-> self.study_active_pane,
     study_include_bible_xrefs |-> self.study_include_bible_xrefs,
     strongs_filter |-> self.strongs_filter,
     footnotes_filter |-> self.footnotes_filter,
     crossref_pane_focused |-> self.crossref_pane_focused,
     strongs_pane_focused |-> self.strongs_pane_focused]

\* TabState.from_dict: deserialize from config.json
from_dict(data) ==
    [name |-> Get(data, "name", <<>>),
     book |-> Get(data, "book", <<"G", "e", "n", "e", "s", "i", "s">>),
     chapter |-> Get(data, "chapter", 1),
     verse |-> Get(data, "verse", 1),
     module |-> Get(data, "module", <<"D", "u", "t", "S", "V", "V">>),
     in_parallel_mode |-> Get(data, "in_parallel_mode", FALSE),
     in_study_mode |-> Get(data, "in_study_mode", FALSE),
     in_strongs_mode |-> Get(data, "in_strongs_mode", FALSE),
     in_crossref_mode |-> Get(data, "in_crossref_mode", FALSE),
     in_jumplist_mode |-> Get(data, "in_jumplist_mode", FALSE),
     secondary_module |-> Get(data, "secondary_module", <<>>),
     right_book |-> Get(data, "right_book", <<"G", "e", "n", "e", "s", "i", "s">>),
     right_chapter |-> Get(data, "right_chapter", 1),
     panes_linked |-> Get(data, "panes_linked", TRUE),
     active_pane |-> Get(data, "active_pane", <<"l", "e", "f", "t">>),
     study_commentary_module |-> Get(data, "study_commentary_module", <<"D", "u", "t", "K", "a", "n", "t">>),
     study_active_pane |-> Get(data, "study_active_pane", 0),
     study_include_bible_xrefs |-> Get(data, "study_include_bible_xrefs", FALSE),
     strongs_filter |-> Get(data, "strongs_filter", FALSE),
     footnotes_filter |-> Get(data, "footnotes_filter", FALSE),
     crossref_pane_focused |-> Get(data, "crossref_pane_focused", FALSE),
     strongs_pane_focused |-> Get(data, "strongs_pane_focused", FALSE),
     _jumplist_ref |-> JumpList]

\* None for an Optional[TabState] and for an Optional[int], which is
\* otherwise the one-element sequence of its value
NoState == <<>>
NoIndex == <<>>

\* a TabManager with the given fields
TabManagerOf(_tabs, _active_index) ==
    [_tabs |-> _tabs, _active_index |-> _active_index]

\* TabManager.__init__
TabManager == TabManagerOf(<<DefaultTabState>>, 0)

\* list.insert(i, x) and list.pop(i), for 0 <= i <= len and 0 <= i < len
ListInsert(list, i, x) ==
    SubSeq(list, 1, i) \o <<x>> \o SubSeq(list, i + 1, Len(list))
ListPop(list, i) == SubSeq(list, 1, i) \o SubSeq(list, i + 2, Len(list))

\* TabManager.count
count(self) == Len(self._tabs)

\* TabManager.new_tab: add a new tab after the current one; returns index of
\* the new tab
new_tab(self, state) ==
    IF Len(self._tabs) >= MAX_TABS THEN Result(self, -1)
    ELSE Let(self._active_index + 1, LAMBDA insert_at :
             Result(TabManagerOf(ListInsert(self._tabs, insert_at,
                                            IF state = NoState
                                            THEN DefaultTabState
                                            ELSE state[1]),
                                 insert_at),
                    insert_at))

\* the active index is not lowered when a tab before the active one is popped
ActiveAfterPop_not_lowered(_tabs, _active_index, index) ==
    IF _active_index >= Len(_tabs) THEN Len(_tabs) - 1 ELSE _active_index

\* the active index after the tab at index is popped
ActiveAfterPop(_tabs, _active_index, index) ==
    IF _active_index >= Len(_tabs) THEN Len(_tabs) - 1
    ELSE IF _active_index > index THEN _active_index - 1
    ELSE _active_index

\* close_tab, once index is known
ClosedAt(self, index) ==
    IF index < 0 \/ index >= Len(self._tabs) THEN Result(self, FALSE)
    ELSE Let(ListPop(self._tabs, index), LAMBDA _tabs :
             Result(TabManagerOf(_tabs,
                                 ActiveAfterPop(_tabs, self._active_index,
                                                index)),
                    TRUE))

\* close_tab without the check that keeps the last tab
close_tab_last_too(self, index) ==
    ClosedAt(self, IF index = NoIndex THEN self._active_index ELSE index[1])

\* TabManager.close_tab: close a tab; returns False if it's the last tab
close_tab(self, index) ==
    IF Len(self._tabs) <= 1 THEN Result(self, FALSE)
    ELSE ClosedAt(self, IF index = NoIndex THEN self._active_index
                        ELSE index[1])

\* switch_to that falls back to the first tab when the index has no tab
switch_to_first(self, index) ==
    IF index < 0 \/ index >= Len(self._tabs)
    THEN Result(TabManagerOf(self._tabs, 0), FALSE)
    ELSE Result(TabManagerOf(self._tabs, index), TRUE)

\* TabManager.switch_to: switch to tab at index; returns True on success
switch_to(self, index) ==
    IF index < 0 \/ index >= Len(self._tabs) THEN Result(self, FALSE)
    ELSE Result(TabManagerOf(self._tabs, index), TRUE)

\* the manager with the given active index, which is returned
Switched(self, _active_index) ==
    Result(TabManagerOf(self._tabs, _active_index), _active_index)

\* TabManager.next_tab: switch to next tab (cyclic); returns new index
next_tab(self) == Switched(self, (self._active_index + 1) % Len(self._tabs))

\* TabManager.prev_tab: switch to previous tab (cyclic); returns new index
prev_tab(self) == Switched(self, (self._active_index - 1) % Len(self._tabs))

\* TabManager.to_list: serialize all tabs for config
to_list(self) == [k \in 1..Len(self._tabs) |-> to_dict(self._tabs[k])]

\* max(0, min(active, n - 1))
Clamped(active, n) ==
    IF active > n - 1 THEN (IF n - 1 < 0 THEN 0 ELSE n - 1)
    ELSE IF active < 0 THEN 0
    ELSE active

\* TabManager.from_list: deserialize from config
from_list(data, active) ==
    IF Len(data) > 0
    THEN TabManagerOf([k \in 1..Len(data) |-> from_dict(data[k])],
                      Clamped(active, Len(data)))
    ELSE TabManager

-----------------------------------------------------------------------------
(* commands/parser.py: ex-style commands.                                  *)

\* A parsed command with name and arguments
ParsedCommand(name, args, flags, raw) ==
    [name |-> name, args |-> args, flags |-> flags, raw |-> raw]

\* Command aliases
COMMAND_ALIASES ==
    DictOf(<<
        <<<<"q">>, <<"q", "u", "i", "t">>>>,
        <<<<"q", "!">>, <<"q", "u", "i", "t", "!">>>>,
        <<<<"w">>, <<"w", "r", "i", "t", "e">>>>,
        <<<<"e">>, <<"e", "d", "i", "t">>>>,
        <<<<"h">>, <<"h", "e", "l", "p">>>>,
        <<<<"m", "o", "d">>, <<"m", "o", "d", "u", "l", "e">>>>,
        <<<<"m">>, <<"m", "o", "d", "u", "l", "e">>>>,
        <<<<"b", "m">>, <<"b", "o", "o", "k", "m", "a", "r", "k">>>>,
        <<<<"e", "x", "p">>, <<"e", "x", "p", "o", "r", "t">>>>,
        <<<<"p">>, <<"p", "a", "r", "a", "l", "l", "e", "l">>>>
    >>)

\* shlex.split(command_str) for a text without quotes, backslashes and
\* comments, and command_str.split(), the fallback for unbalanced quotes
Tokens(command_str) == SplitWs(command_str)

\* s[n:]
Rest(s, n) == SubSeq(s, n + 1, Len(s))

\* the index of the first "=" of a token that holds one
FirstEquals(token) ==
    CHOOSE i \in 1..Len(token) :
        token[i] = "=" /\ \A j \in 1..(i - 1) : token[j] # "="

\* key, value = token[2:].split("=", 1)
LongFlag(token) ==
    <<SubSeq(token, 1, FirstEquals(token) - 1),
      Rest(token, FirstEquals(token))>>

\* token.startswith("--"), and token.startswith("-") and len(token) > 1
IsLongFlag(token) == StartsWith(token, <<"-", "-">>)
IsShortFlag(token) == StartsWith(token, <<"-">>) /\ Len(token) > 1

\* the item that a flag token adds to flags
FlagItem(token) ==
    IF IsLongFlag(token)
    THEN (IF Contains(token, "=") THEN LongFlag(Rest(token, 2))
          ELSE <<Rest(token, 2), <<"t", "r", "u", "e">>>>)
    ELSE <<Rest(token, 1), <<"t", "r", "u", "e">>>>

\* the loop over tokens[1:]: the flags and the args
FlagsOf(tokens) ==
    Let(SelectSeq(Tail(tokens),
                  LAMBDA token : IsLongFlag(token) \/ IsShortFlag(token)),
        LAMBDA flag_tokens :
            DictOf([k \in 1..Len(flag_tokens) |-> FlagItem(flag_tokens[k])]))
ArgsOf(tokens) ==
    SelectSeq(Tail(tokens),
              LAMBDA token : ~IsLongFlag(token) /\ ~IsShortFlag(token))

\* COMMAND_ALIASES.get(name, name)
AliasOrName(name) ==
    IF name \in DOMAIN COMMAND_ALIASES THEN COMMAND_ALIASES[name] ELSE name

\* parse_command, once the text is stripped
ParsedTokens(tokens, raw) ==
    IF tokens = <<>> THEN ParsedCommand(<<>>, <<>>, <<>>, raw)
    ELSE ParsedCommand(AliasOrName(Lower(tokens[1])), ArgsOf(tokens),
                       FlagsOf(tokens), raw)

\* parse_command: parse a command string into a ParsedCommand
parse_command(command_str) ==
    Let(Strip(command_str), LAMBDA stripped :
        IF stripped = <<>> THEN ParsedCommand(<<>>, <<>>, <<>>, stripped)
        ELSE ParsedTokens(Tokens(stripped), stripped))

\* get_command_names: list of command names for completion
get_command_names ==
    <<<<"q", "u", "i", "t">>, <<"h", "e", "l", "p">>, <<"m", "o", "d", "u", "l", "e">>, <<"e", "x", "p", "o", "r", "t">>, <<"b", "o", "o", "k", "m", "a", "r", "k">>, <<"p", "a", "r", "a", "l", "l", "e", "l">>, <<"g", "o", "t", "o">>,
      <<"s", "e", "a", "r", "c", "h">>, <<"y", "a", "n", "k">>>>

-----------------------------------------------------------------------------
(* widgets/bible_view.py: the verses on display and the cursor among them. *)

\* a BibleView with the given fields, of those that the verse cursor reads
\* or writes
BibleViewOf(_segments, _current_verse) ==
    [_segments |-> _segments, _current_verse |-> _current_verse]

\* BibleView.__init__ without segments
BibleView == BibleViewOf(<<>>, 1)

\* s.verse for s in self._segments
VersesOf(_segments) == [k \in 1..Len(_segments) |-> _segments[k].verse]

\* max(...) and min(...) of a list of numbers that is not empty
MaxOf(list) ==
    CHOOSE v \in {list[k] : k \in DOMAIN list} :
        \A k \in DOMAIN list : list[k] <= v
MinOf(list) ==
    CHOOSE v \in {list[k] : k \in DOMAIN list} :
        \A k \in DOMAIN list : v <= list[k]

\* sorted(...) of a list of numbers: the k-th is the number that fewer than
\* k are less than and at least k are not greater than
SortedNumbers(list) ==
    [k \in 1..Len(list) |->
        CHOOSE v \in {list[j] : j \in DOMAIN list} :
            /\ Cardinality({j \in DOMAIN list : list[j] < v}) < k
            /\ Cardinality({j \in DOMAIN list : list[j] <= v}) >= k]

\* verses.index(x), from 0: the first place of x; -1 for ValueError
FirstIndex(list, x) ==
    IF \E i \in DOMAIN list : list[i] = x
    THEN (CHOOSE i \in DOMAIN list :
              list[i] = x /\ \A j \in 1..(i - 1) : list[j] # x) - 1
    ELSE -1

\* BibleView.update_content: update the displayed content
update_content(self, segments) ==
    Result(BibleViewOf(segments,
                       IF segments # <<>> THEN segments[1].verse ELSE 1),
           <<>>)

\* max(min_verse, min(verse, max_verse))
ClampedVerse(verse, min_verse, max_verse) ==
    Let(IF verse < max_verse THEN verse ELSE max_verse, LAMBDA least :
        IF min_verse > least THEN min_verse ELSE least)

\* BibleView.set_current_verse: set the current verse (cursor position)
set_current_verse(self, verse) ==
    IF self._segments = <<>> THEN Result(self, <<>>)
    ELSE Let(VersesOf(self._segments), LAMBDA verses :
             Result(BibleViewOf(self._segments,
                                ClampedVerse(verse, MinOf(verses),
                                             MaxOf(verses))),
                    <<>>))

\* BibleView.move_to_verse: move cursor to specific verse
move_to_verse(self, verse) == set_current_verse(self, verse)

\* next_verse and prev_verse: the cursor goes step places on in the sorted
\* verses, if it is on one of them and the place exists
Stepped(self, step) ==
    IF self._segments = <<>> THEN Result(self, FALSE)
    ELSE Let(SortedNumbers(VersesOf(self._segments)), LAMBDA verses :
         Let(FirstIndex(verses, self._current_verse), LAMBDA idx :
             IF idx # -1 /\ idx + step \in 0..(Len(verses) - 1)
             THEN Result(BibleViewOf(self._segments, verses[idx + step + 1]),
                         TRUE)
             ELSE Result(self, FALSE)))

\* BibleView.next_verse: move to next verse; True if moved, False if at end
next_verse(self) == Stepped(self, 1)

\* BibleView.prev_verse: move to previous verse; True if moved
prev_verse(self) == Stepped(self, -1)

\* BibleView.first_verse: go to first verse
first_verse(self) ==
    IF self._segments = <<>> THEN Result(self, <<>>)
    ELSE Result(BibleViewOf(self._segments, MinOf(VersesOf(self._segments))),
                <<>>)

\* BibleView.last_verse: go to last verse
last_verse(self) ==
    IF self._segments = <<>> THEN Result(self, <<>>)
    ELSE Result(BibleViewOf(self._segments, MaxOf(VersesOf(self._segments))),
                <<>>)

-----------------------------------------------------------------------------
(* app.py: the application, its views, its jumplist and its tabs.          *)

\* the number of verses of every chapter of the installed modules
ChapterVerses == 2

\* Return the number of chapters in a book
book_chapters(name) ==
    IF \E i \in DOMAIN _CANON_TABLE : _CANON_TABLE[i].name = name
    THEN _CANON_TABLE[CHOOSE i \in DOMAIN _CANON_TABLE :
                          _CANON_TABLE[i].name = name].chapters
    ELSE 0

\* DiathekeBackend.lookup_chapter as the installed modules answer it: the
\* verses 1 to ChapterVerses of every chapter of the canon
lookup_chapter(module, book, chapter) ==
    IF chapter \in 1..book_chapters(book)
    THEN [v \in 1..ChapterVerses |-> VerseSegment(book, chapter, v, <<>>, <<>>)]
    ELSE <<>>

\* BiblePane.__init__ and BiblePane.update_chapter of the study view
BiblePaneOf(_verses, _current_verse) ==
    [_verses |-> _verses, _current_verse |-> _current_verse]
BiblePane == BiblePaneOf(<<>>, 1)

\* Use configured module if valid, otherwise fall back to first available
ValidModule(installed, configured) ==
    IF installed # <<>> /\ \A k \in DOMAIN installed : installed[k] # configured
    THEN installed[1]
    ELSE configured

\* SwordApp.__init__ and compose, where get_installed_modules() gives the
\* modules installed and the CommentaryBackend has found commentaries or
\* has not: the fields that the handlers below read or write, and the views
\* #bible-view, #left-view, #right-view and the study view's bible pane
SwordAppOf(installed, available) ==
    [_current_book |-> <<"G", "e", "n", "e", "s", "i", "s">>,
     _current_chapter |-> 1,
     _current_module |-> ValidModule(installed, <<"D", "u", "t", "S", "V", "V">>),
     _in_command_mode |-> FALSE,
     _in_visual_mode |-> FALSE,
     _in_picker_mode |-> FALSE,
     _in_parallel_mode |-> FALSE,
     _in_search_mode |-> FALSE,
     _panes_linked |-> TRUE,
     _active_pane |-> <<"l", "e", "f", "t">>,
     _diatheke_filters |-> [strongs |-> FALSE, footnotes |-> FALSE],
     _in_strongs_mode |-> FALSE,
     _strongs_pane_focused |-> FALSE,
     _in_crossref_mode |-> FALSE,
     _crossref_pane_focused |-> FALSE,
     _in_study_mode |-> FALSE,
     _commentary_backend |-> [available |-> available],
     _study_commentary_module |-> <<"D", "u", "t", "K", "a", "n", "t">>,
     _study_active_pane |-> 0,
     _study_include_bible_xrefs |-> FALSE,
     _right_book |-> <<"G", "e", "n", "e", "s", "i", "s">>,
     _right_chapter |-> 1,
     _jumplist |-> JumpList,
     _in_jumplist_mode |-> FALSE,
     _in_verselist_mode |-> FALSE,
     _tab_manager |-> TabManager,
     _secondary_module |-> <<>>,
     _secondary_backend |-> NoneStr,
     installed |-> installed,
     bible_view |-> BibleView,
     left_view |-> BibleView,
     right_view |-> BibleView,
     bible_pane |-> BiblePane]

\* the active pane of the parallel view is the right one, unlinked
RightUnlinked(self) ==
    /\ self._in_parallel_mode
    /\ ~self._panes_linked
    /\ self._active_pane = <<"r", "i", "g", "h", "t">>

\* _get_active_book: get the book for the active pane
_get_active_book(self) ==
    IF RightUnlinked(self) THEN self._right_book ELSE self._current_book

\* _set_active_book: set the book for the active pane
_set_active_book(self, book) ==
    IF RightUnlinked(self) THEN [self EXCEPT !._right_book = book]
    ELSE IF self._panes_linked
    THEN [self EXCEPT !._current_book = book, !._right_book = book]
    ELSE [self EXCEPT !._current_book = book]

\* _get_active_chapter: get the chapter for the active pane
_get_active_chapter(self) ==
    IF RightUnlinked(self) THEN self._right_chapter ELSE self._current_chapter

\* _set_active_chapter: set the chapter for the active pane
_set_active_chapter(self, chapter) ==
    IF RightUnlinked(self) THEN [self EXCEPT !._right_chapter = chapter]
    ELSE IF self._panes_linked
    THEN [self EXCEPT !._current_chapter = chapter,
                      !._right_chapter = chapter]
    ELSE [self EXCEPT !._current_chapter = chapter]

\* _get_active_view: the active BibleView widget, by the field that holds it
ActiveView(self) ==
    IF self._in_parallel_mode
    THEN (IF self._active_pane = <<"r", "i", "g", "h", "t">> THEN "right_view" ELSE "left_view")
    ELSE "bible_view"
_get_active_view(self) == self[ActiveView(self)]

\* "#right-view" if self._active_pane == "left" else "#left-view"
OtherView(self) ==
    IF self._active_pane = <<"l", "e", "f", "t">> THEN "right_view" ELSE "left_view"

\* _get_active_backend: the module of the backend for the active pane
_get_active_backend(self) ==
    IF /\ self._in_parallel_mode
       /\ self._active_pane = <<"r", "i", "g", "h", "t">>
       /\ self._secondary_backend # NoneStr
    THEN self._secondary_backend[1]
    ELSE self._current_module

\* the application with the view of the given field left as a call of one
\* of the view's methods leaves it
WithView(self, view, result) == [self EXCEPT ![view] = result.self]

\* the call goes to the other pane too when the panes are linked
Synced(self, Call(_)) ==
    IF self._in_parallel_mode /\ self._panes_linked
    THEN WithView(self, OtherView(self), Call(self[OtherView(self)]))
    ELSE self

\* _load_parallel_chapter: load current chapter into both parallel panes
_load_parallel_chapter(self) ==
    Let(WithView(self, "left_view",
                 update_content(self.left_view,
                                lookup_chapter(self._current_module,
                                               self._current_book,
                                               self._current_chapter))),
        LAMBDA left :
            IF self._secondary_backend = NoneStr THEN left
            ELSE WithView(left, "right_view",
                          update_content(
                              self.right_view,
                              IF self._panes_linked
                              THEN lookup_chapter(self._secondary_backend[1],
                                                  self._current_book,
                                                  self._current_chapter)
                              ELSE lookup_chapter(self._secondary_backend[1],
                                                  self._right_book,
                                                  self._right_chapter))))

\* _load_chapter: load the current chapter (for single view or linked
\* parallel)
_load_chapter(self) ==
    Let(WithView(self, "bible_view",
                 update_content(self.bible_view,
                                lookup_chapter(self._current_module,
                                               self._current_book,
                                               self._current_chapter))),
        LAMBDA single :
            [(IF self._in_parallel_mode THEN _load_parallel_chapter(single)
              ELSE single) EXCEPT !._in_visual_mode = FALSE])

\* _load_active_pane_chapter: load chapter for only the active pane (when
\* unlinked)
_load_active_pane_chapter(self) ==
    IF ~self._in_parallel_mode THEN _load_chapter(self)
    ELSE Let(IF self._active_pane = <<"r", "i", "g", "h", "t">> THEN "right_view"
             ELSE "left_view",
             LAMBDA view :
                 WithView(self, view,
                          update_content(self[view],
                                         lookup_chapter(
                                             _get_active_backend(self),
                                             _get_active_book(self),
                                             _get_active_chapter(self)))))

\* the chapter is loaded after a change of book or chapter
Loaded(self) ==
    IF self._panes_linked \/ ~self._in_parallel_mode THEN _load_chapter(self)
    ELSE _load_active_pane_chapter(self)

\* study.bible_pane.current_verse or 1
PaneVerse(self) ==
    IF self.bible_pane._current_verse = 0 THEN 1
    ELSE self.bible_pane._current_verse

\* the verse that _record_jump, action_jump_back and _capture_tab_state
\* take for the current one
CurrentVerse(self) ==
    IF self._in_study_mode THEN PaneVerse(self)
    ELSE _get_active_view(self)._current_verse

\* _record_jump: record current position in the jumplist before a
\* navigation jump
_record_jump(self) ==
    [self EXCEPT !._jumplist = record(self._jumplist, self._current_book,
                                      self._current_chapter,
                                      CurrentVerse(self)).self]

\* action_next_book: go to next book, chapter 1, verse 1
action_next_book(self) ==
    Let(_record_jump(self), LAMBDA recorded :
    Let(book_index(_get_active_book(recorded)), LAMBDA idx :
        IF idx < Len(BOOK_ORDER) - 1
        THEN Loaded(_set_active_chapter(
                        _set_active_book(recorded, BOOK_ORDER[idx + 2]), 1))
        ELSE recorded))

\* action_next_chapter: go to next chapter, verse 1
action_next_chapter(self) ==
    Let(_record_jump(self), LAMBDA recorded :
        IF _get_active_chapter(recorded)
               < book_chapters(_get_active_book(recorded))
        THEN Loaded(_set_active_chapter(recorded,
                                        _get_active_chapter(recorded) + 1))
        ELSE action_next_book(recorded))

\* the last chapter of the book before the given one, at index idx > 0
AtPrevBookEnd(self, idx) ==
    _set_active_chapter(_set_active_book(self, BOOK_ORDER[idx]),
                        book_chapters(BOOK_ORDER[idx]))

\* action_prev_chapter: go to previous chapter, verse 1
action_prev_chapter(self) ==
    Let(_record_jump(self), LAMBDA recorded :
        IF _get_active_chapter(recorded) > 1
        THEN Loaded(_set_active_chapter(recorded,
                                        _get_active_chapter(recorded) - 1))
        ELSE Let(book_index(_get_active_book(recorded)), LAMBDA idx :
                 IF idx > 0 THEN Loaded(AtPrevBookEnd(recorded, idx))
                 ELSE recorded))

\* action_prev_book: go to previous book, chapter 1, verse 1
action_prev_book(self) ==
    Let(_record_jump(self), LAMBDA recorded :
    Let(book_index(_get_active_book(recorded)), LAMBDA idx :
        IF idx > 0
        THEN Loaded(_set_active_chapter(
                        _set_active_book(recorded, BOOK_ORDER[idx]), 1))
        ELSE recorded))

\* action_first_verse: go to first verse (gg)
action_first_verse(self) ==
    Let(_record_jump(self), LAMBDA recorded :
        Synced(WithView(recorded, ActiveView(recorded),
                        first_verse(_get_active_view(recorded))),
               first_verse))

\* action_last_verse: go to last verse (G)
action_last_verse(self) ==
    Let(_record_jump(self), LAMBDA recorded :
        Synced(WithView(recorded, ActiveView(recorded),
                        last_verse(_get_active_view(recorded))),
               last_verse))

\* action_next_verse and action_prev_verse return at once: a picker or the
\* verse lists are open, or the cross-reference pane or the dictionary pane
\* has the focus
KeysGoElsewhere(self) ==
    \/ self._in_picker_mode \/ self._in_verselist_mode
    \/ self._in_crossref_mode /\ self._crossref_pane_focused
    \/ self._in_strongs_mode /\ self._strongs_pane_focused

\* other.set_current_verse(view.current_verse), when the panes are linked
OtherSynced(self) ==
    IF self._in_parallel_mode /\ self._panes_linked
    THEN WithView(self, OtherView(self),
                  set_current_verse(self[OtherView(self)],
                                    _get_active_view(self)._current_verse))
    ELSE self

\* action_next_verse: move to next verse (j key)
action_next_verse(self) ==
    IF KeysGoElsewhere(self) THEN self
    ELSE Let(next_verse(_get_active_view(self)), LAMBDA moved :
             IF ~moved.value THEN action_next_chapter(self)
             ELSE OtherSynced(WithView(self, ActiveView(self), moved)))

\* action_prev_verse, when the view is on its first verse: the chapter or
\* the book before it is loaded, if there is one, with the cursor on its
\* last verse
LoadedAtEnd(self) ==
    Let(IF self._panes_linked THEN _load_chapter(self)
        ELSE _load_active_pane_chapter(self),
        LAMBDA loaded :
            Synced(WithView(loaded, ActiveView(loaded),
                            last_verse(_get_active_view(loaded))),
                   last_verse))

\* action_prev_verse: move to previous verse (k key)
action_prev_verse(self) ==
    IF KeysGoElsewhere(self) THEN self
    ELSE Let(prev_verse(_get_active_view(self)), LAMBDA moved :
             IF moved.value
             THEN OtherSynced(WithView(self, ActiveView(self), moved))
             ELSE IF _get_active_chapter(self) > 1
             THEN LoadedAtEnd(_set_active_chapter(
                                  self, _get_active_chapter(self) - 1))
             ELSE IF book_index(_get_active_book(self)) > 0
             THEN LoadedAtEnd(AtPrevBookEnd(
                                  self, book_index(_get_active_book(self))))
             ELSE self)

RECURSIVE Paged(_, _, _)
\* for _ in range(n): if not view.next_verse(): break (prev_verse for
\* step = -1)
Paged(view, n, step) ==
    IF n = 0 THEN view
    ELSE Let(Stepped(view, step), LAMBDA moved :
             IF ~moved.value THEN view ELSE Paged(moved.self, n - 1, step))

\* action_page_down and action_page_up
PagedApp(self, step) ==
    IF self._in_parallel_mode
    THEN Let(Paged(self.left_view, 10, step), LAMBDA left :
             IF self._panes_linked
             THEN [self EXCEPT
                       !.left_view = left,
                       !.right_view =
                           set_current_verse(self.right_view,
                                             left._current_verse).self]
             ELSE [self EXCEPT !.left_view = left])
    ELSE [self EXCEPT !.bible_view = Paged(self.bible_view, 10, step)]

\* action_page_down: page down (move multiple verses)
action_page_down(self) == PagedApp(self, 1)

\* action_page_up: page up (move multiple verses)
action_page_up(self) == PagedApp(self, -1)

\* _load_study_view: load content into all study view panes; verse 0 keeps
\* the current verse or uses 1
_load_study_view(self, verse) ==
    [self EXCEPT !.bible_pane =
        BiblePaneOf(lookup_chapter(self._current_module, self._current_book,
                                   self._current_chapter),
                    IF verse > 0 THEN verse ELSE PaneVerse(self))]

\* the view of the given field, and the other one when the panes are
\* linked, moved to the verse
MovedTo(self, view, verse) ==
    Let(WithView(self, view, move_to_verse(self[view], verse)),
        LAMBDA moved :
            IF moved._in_parallel_mode /\ moved._panes_linked
            THEN WithView(moved, OtherView(moved),
                          move_to_verse(moved[OtherView(moved)], verse))
            ELSE moved)

\* _jump_navigate: navigate to a jumplist entry
_jump_navigate(self, entry) ==
    Let([self EXCEPT !._current_book = entry.book,
                     !._current_chapter = entry.chapter],
        LAMBDA at :
            IF at._in_study_mode THEN _load_study_view(at, entry.verse)
            ELSE Let(_load_chapter(at), LAMBDA loaded :
                     MovedTo(loaded, ActiveView(loaded), entry.verse)))

\* the application after a call of its jumplist, at the entry returned if
\* there is one
Jumped(self, result) ==
    Let([self EXCEPT !._jumplist = result.self], LAMBDA kept :
        IF result.value # NoJump THEN _jump_navigate(kept, result.value[1])
        ELSE kept)

\* action_jump_back: go back in navigation history (Ctrl+O)
action_jump_back(self) ==
    Jumped(self, back(self._jumplist, self._current_book,
                      self._current_chapter, CurrentVerse(self)))

\* action_jump_forward: go forward in navigation history (Ctrl+I)
action_jump_forward(self) == Jumped(self, forward(self._jumplist))

\* for mod in modules: if mod.name != self._current_module: ... break
OtherModule(modules, _current_module, _secondary_module) ==
    IF \E k \in DOMAIN modules : modules[k] # _current_module
    THEN modules[CHOOSE k \in DOMAIN modules :
                     /\ modules[k] # _current_module
                     /\ \A j \in 1..(k - 1) : modules[j] = _current_module]
    ELSE _secondary_module

\* action_toggle_parallel: toggle parallel view mode
action_toggle_parallel(self) ==
    IF self._in_parallel_mode THEN [self EXCEPT !._in_parallel_mode = FALSE]
    ELSE IF Len(self.installed) < 2 THEN self
    ELSE Let(OtherModule(self.installed, self._current_module,
                         self._secondary_module),
             LAMBDA _secondary_module :
                 _load_parallel_chapter(
                     [self EXCEPT !._secondary_module = _secondary_module,
                                  !._secondary_backend = <<_secondary_module>>,
                                  !._in_parallel_mode = TRUE]))

\* action_toggle_strongs: toggle Strong's numbers filter and lookup mode
action_toggle_strongs(self) ==
    _load_chapter([self EXCEPT
                       !._diatheke_filters.strongs =
                           ~self._diatheke_filters.strongs,
                       !._in_strongs_mode = ~self._diatheke_filters.strongs])

\* action_toggle_crossrefs, in cross-reference mode: exit it
ExitCrossrefs(self) ==
    [self EXCEPT !._in_crossref_mode = FALSE,
                 !._crossref_pane_focused = FALSE]

\* _close_search_mode: close search mode and return to normal view
_close_search_mode(self) == [self EXCEPT !._in_search_mode = FALSE]

\* action_toggle_study: disable other modes
OtherModesOff(self) ==
    Let(IF self._in_parallel_mode THEN action_toggle_parallel(self)
        ELSE self, LAMBDA single :
    Let(IF single._in_search_mode THEN _close_search_mode(single)
        ELSE single, LAMBDA closed :
    Let(IF closed._in_strongs_mode THEN action_toggle_strongs(closed)
        ELSE closed, LAMBDA plain :
        IF plain._in_crossref_mode THEN ExitCrossrefs(plain) ELSE plain)))

\* action_toggle_study: toggle 3-pane study mode (T)
action_toggle_study(self) ==
    IF self._in_study_mode THEN [self EXCEPT !._in_study_mode = FALSE]
    ELSE IF ~self._commentary_backend.available THEN self
    ELSE _load_study_view([OtherModesOff(self) EXCEPT
                               !._in_study_mode = TRUE], 0)

\* self._tab_manager.active
ActiveTab(self) ==
    self._tab_manager._tabs[self._tab_manager._active_index + 1]

\* _capture_tab_state: the active tab with all current app state saved into
\* it; its jumplist is the application's
Captured(self, tab) ==
    [tab EXCEPT
        !.verse = CurrentVerse(self),
        !.book = self._current_book,
        !.chapter = self._current_chapter,
        !.module = self._current_module,
        !.in_parallel_mode = self._in_parallel_mode,
        !.in_study_mode = self._in_study_mode,
        !.in_strongs_mode = self._in_strongs_mode,
        !.in_crossref_mode = self._in_crossref_mode,
        !.in_jumplist_mode = self._in_jumplist_mode,
        !.secondary_module = self._secondary_module,
        !.right_book = self._right_book,
        !.right_chapter = self._right_chapter,
        !.panes_linked = self._panes_linked,
        !.active_pane = self._active_pane,
        !.study_commentary_module = self._study_commentary_module,
        !.study_active_pane = self._study_active_pane,
        !.study_include_bible_xrefs = self._study_include_bible_xrefs,
        !.strongs_filter = self._diatheke_filters.strongs,
        !.footnotes_filter = self._diatheke_filters.footnotes,
        !.crossref_pane_focused = self._crossref_pane_focused,
        !.strongs_pane_focused = self._strongs_pane_focused,
        !._jumplist_ref = self._jumplist,
        !.name = IF tab.name = <<>>
                 THEN self._current_book \o <<" ">>
                      \o IntToStr(self._current_chapter)
                 ELSE tab.name]

\* _capture_tab_state: save all current app state into the active tab
_capture_tab_state(self) ==
    [self EXCEPT !._tab_manager._tabs[self._tab_manager._active_index + 1] =
                     Captured(self, ActiveTab(self))]

\* _restore_tab_state, up to the jumplist: the fields of the application
\* that are restored from the tab, after _reset_all_views
Restored(self, tab) ==
    [self EXCEPT
        !._in_visual_mode = FALSE,
        !._in_command_mode = FALSE,
        !._in_verselist_mode = FALSE,
        !._current_book = tab.book,
        !._current_chapter = tab.chapter,
        !._current_module = tab.module,
        !._in_parallel_mode = tab.in_parallel_mode,
        !._in_study_mode = tab.in_study_mode,
        !._in_strongs_mode = tab.in_strongs_mode,
        !._in_crossref_mode = tab.in_crossref_mode,
        !._in_jumplist_mode = tab.in_jumplist_mode,
        !._secondary_module = tab.secondary_module,
        !._right_book = tab.right_book,
        !._right_chapter = tab.right_chapter,
        !._panes_linked = tab.panes_linked,
        !._active_pane = tab.active_pane,
        !._study_commentary_module = tab.study_commentary_module,
        !._study_active_pane = tab.study_active_pane,
        !._study_include_bible_xrefs = tab.study_include_bible_xrefs,
        !._diatheke_filters.strongs = tab.strongs_filter,
        !._diatheke_filters.footnotes = tab.footnotes_filter,
        !._crossref_pane_focused = tab.crossref_pane_focused,
        !._strongs_pane_focused = tab.strongs_pane_focused,
        !._jumplist = tab._jumplist_ref]

\* _apply_view_state, in parallel mode: both panes are loaded and moved to
\* the saved verse
ParallelApplied(self, tab) ==
    Let(_load_parallel_chapter(
            IF tab.secondary_module # <<>>
            THEN [self EXCEPT !._secondary_backend = <<tab.secondary_module>>]
            ELSE self),
        LAMBDA loaded :
    Let(WithView(loaded, "left_view",
                 move_to_verse(loaded.left_view, tab.verse)),
        LAMBDA left :
            IF left._panes_linked
            THEN WithView(left, "right_view",
                          move_to_verse(left.right_view, tab.verse))
            ELSE left))

\* _apply_view_state: show the correct views and load content based on tab
\* modes
_apply_view_state(self, tab) ==
    IF tab.in_study_mode THEN _load_study_view(self, tab.verse)
    ELSE IF tab.in_parallel_mode THEN ParallelApplied(self, tab)
    ELSE Let(_load_chapter(self), LAMBDA loaded :
             WithView(loaded, "bible_view",
                      move_to_verse(loaded.bible_view, tab.verse)))

\* _restore_tab_state: restore app state from the active tab
_restore_tab_state(self) ==
    _apply_view_state(Restored(self, ActiveTab(self)), ActiveTab(self))

\* the application with its TabManager left as a call of one of its methods
\* leaves it
WithTabs(self, result) == [self EXCEPT !._tab_manager = result.self]

\* _switch_tab: switch to tab at given index
_switch_tab(self, index) ==
    IF index = self._tab_manager._active_index THEN self
    ELSE Let(_capture_tab_state(self), LAMBDA captured :
         Let(switch_to(captured._tab_manager, index), LAMBDA switched :
             IF switched.value
             THEN _restore_tab_state(WithTabs(captured, switched))
             ELSE captured))

\* _tab_new: create a new tab, without a reference
_tab_new(self) ==
    Let(_capture_tab_state(self), LAMBDA captured :
    Let(new_tab(captured._tab_manager,
                <<[DefaultTabState EXCEPT !.module = self._current_module]>>),
        LAMBDA added :
            IF added.value < 0 THEN captured
            ELSE _restore_tab_state(WithTabs(captured, added))))

\* _tab_close: close the current tab
_tab_close(self) ==
    Let(close_tab(self._tab_manager, NoIndex), LAMBDA closed :
        IF ~closed.value THEN self
        ELSE _restore_tab_state(WithTabs(self, closed)))

\* _tab_next: switch to the next tab
_tab_next(self) ==
    IF count(self._tab_manager) <= 1 THEN self
    ELSE Let(_capture_tab_state(self), LAMBDA captured :
             _restore_tab_state(
                 WithTabs(captured, next_tab(captured._tab_manager))))

\* _tab_prev: switch to the previous tab
_tab_prev(self) ==
    IF count(self._tab_manager) <= 1 THEN self
    ELSE Let(_capture_tab_state(self), LAMBDA captured :
             _restore_tab_state(
                 WithTabs(captured, prev_tab(captured._tab_manager))))

\* on_mount without saved tabs: load initial content
on_mount(self) == _load_chapter(self)

\* no application yet
NoApp == <<>>

-----------------------------------------------------------------------------
(* The calls.  The caller calls a function of the program, a state records *)
(* the call, its arguments and what it returned, and the caller takes the  *)
(* result before it calls again.  The parsers are pure; lookup detects the *)
(* installed modules on its first call and keeps what it found.            *)

Init ==
    /\ fn = "idle"
    /\ arg = <<>>
    /\ ret = <<>>
    /\ crossref_backend = CrossRefBackend(NoneStr, <<>>)
    \* the application has made no DictionaryBackend yet
    /\ dictionary_backend = NoBackend
    /\ pc = "idle"
    /\ diatheke_runs = <<>>
    /\ tab_manager = TabManager
    /\ jumplist = JumpList
    /\ bible_view = BibleView
    /\ app = NoApp

\* the caller has taken the result
Return ==
    /\ fn # "idle"
    /\ pc \in {"idle", "done"}
    /\ fn' = "idle"
    /\ arg' = <<>>
    /\ ret' = <<>>
    /\ pc' = "idle"
    /\ diatheke_runs' = <<>>
    /\ UNCHANGED <<crossref_backend, dictionary_backend, tab_manager, jumplist,
                   bible_view, app>>

\* the longest prefix of a book's name, abbreviation or alias that is tried
\* as an input of resolve_alias
MaxPrefixLen == 7

\* the name, the abbreviation and the aliases of book i of the canon table
BookForms(i) ==
    Let(_CANON_TABLE[i], LAMBDA book :
        {book.name, book.abbr}
        \cup {book.aliases[k] : k \in 1..Len(book.aliases)})

\* lower-cased, periods and spaces removed
NormalizedForm(s) == Remove(Remove(Lower(s), "."), " ")

AllForms == UNION {BookForms(i) : i \in 1..Len(_CANON_TABLE)}

\* s[:k]
Prefix(s, k) == SubSeq(s, 1, IF k < Len(s) THEN k ELSE Len(s))

FormPrefixes ==
    {Prefix(NormalizedForm(f), k) : f \in AllForms, k \in 0..MaxPrefixLen}

\* what resolve_alias is called with: every name, abbreviation and alias as
\* the table spells it, every prefix of a normalized one, bare or with a
\* leading space or a trailing period, and a text that is no book
AliasInputs ==
    AllForms
    \cup {pre \o p \o post :
            p \in FormPrefixes, pre \in {<<>>, <<" ">>}, post \in {<<>>, <<".">>}}
    \cup {<<"x", "y", "z">>}

ResolveAlias ==
    \E alias \in AliasInputs, fuzzy \in BOOLEAN :
        /\ fn = "idle"
        /\ fn' = "resolve_alias"
        /\ arg' = [alias |-> alias, fuzzy |-> fuzzy]
        /\ ret' = resolve_alias(alias, fuzzy)
        /\ UNCHANGED <<crossref_backend, other_objects>>

NextCanon == ResolveAlias \/ Return

SpecCanon == Init /\ [][NextCanon]_vars

RECURSIVE TokenTexts(_, _)
\* the texts made of at most n of the tokens toks, one after the other
TokenTexts(toks, n) ==
    IF n = 0 THEN {<<>>}
    ELSE LET shorter == TokenTexts(toks, n - 1)
         IN  shorter \cup {t \o toks[k] : t \in shorter, k \in 1..Len(toks)}

\* the most tokens in a text given to the normalizer
MaxNormTokens == 2

\* what the engine's output is made of, for the normalizer: escaped markup,
\* a letter, a space, a line break, a tag, a module attribution
NormTokens ==
    << <<"&", "l", "t", ";">>, <<"&", "g", "t", ";">>, <<"&", "a", "m", "p", ";">>,
       <<"b">>, <<" ">>, <<"\n">>, <<"<", "i", ">">>,
       <<"(", "K", "J", "V", ")">> >>

NormalizeLines ==
    \E text \in TokenTexts(NormTokens, MaxNormTokens) :
        /\ fn = "idle"
        /\ fn' = "_normalize_lines"
        /\ arg' = text
        /\ ret' = _normalize_lines(text)
        /\ UNCHANGED <<crossref_backend, other_objects>>

\* the most words in a verse line given to the verse parser
MaxLineWords == 2

\* how an output line may start: a reference in either shape, plain, with
\* its own markup, with a leading zero, with an unknown book; an attribution
LineStarts ==
    { <<"J", "o", "h", "n", " ", "3", ":", "1", "6">>,
      <<"J", "o", "h", "n", " ", "3", ":", "1", "6", ":">>,
      <<"<", "b", ">", "J", "o", "h", "n", "<", "/", "b", ">", " ", "3", ":", "1", "6">>,
      <<"J", "o", "h", "n", " ", "0", "3", ":", "1", "6">>,
      <<"Q", "q", "q", " ", "1", ":", "1">>,
      <<"1", ".">>,
      <<"1">>,
      <<"<", "b", ">", "1", "<", "/", "b", ">">>,
      <<"(", "K", "J", "V", ")">> }

\* the words of a line: plain, tagged with one lexicon number, tagged with
\* two and holding two words, inside other markup, an escaped character, a
\* tagged blank
LineWords ==
    << <<"G", "o", "d">>,
       <<"<", "w", " ", "s", "a", "v", "l", "m", "=", "\"", "s", "t", "r", "o",
         "n", "g", ":", "G", "2", "5", "\"", ">", "l", "o", "v", "e", "<", "/",
         "w", ">">>,
       <<"<", "w", " ", "s", "a", "v", "l", "m", "=", "\"", "s", "t", "r", "o",
         "n", "g", ":", "G", "3", " ", "s", "t", "r", "o", "n", "g", ":", "H",
         "4", "\"", ">", "s", "o", " ", " ", "b", "e", "<", "/", "w", ">">>,
       <<"<", "i", ">", "a", "<", "/", "i", ">">>,
       <<"&", "a", "m", "p", ";">>,
       <<"<", "w", " ", "s", "a", "v", "l", "m", "=", "\"", "s", "t", "r", "o",
         "n", "g", ":", "H", "1", "\"", ">", " ", "<", "/", "w", ">">> >>

RECURSIVE WordLists(_)
\* the sequences of at most n indices into LineWords
WordLists(n) ==
    IF n = 0 THEN {<<>>}
    ELSE LET shorter == WordLists(n - 1)
         IN  shorter \cup {Append(l, k) : l \in shorter, k \in 1..Len(LineWords)}

\* the line that starts with start and holds the words numbered in l
LineOf(start, l) ==
    start \o <<" ">> \o Join([k \in 1..Len(l) |-> LineWords[l[k]]], <<" ">>)

ParseLookup ==
    \E start \in LineStarts, l \in WordLists(MaxLineWords) :
        LET book == <<"R", "u", "t", "h">>
            text == LineOf(start, l) \o <<"\n", "(", "K", "J", "V", ")">>
        IN  /\ fn = "idle"
            /\ fn' = "_parse_lookup"
            /\ arg' = [book |-> book, chapter |-> 3, text |-> text]
            /\ ret' = _parse_lookup(book, 3, text)
            /\ UNCHANGED <<crossref_backend, other_objects>>

NextDiatheke == NormalizeLines \/ ParseLookup \/ Return

SpecDiatheke == Init /\ [][NextDiatheke]_vars

\* the most references in a text given to an extractor
MaxItems == 2

\* the most entries in a passage list given to an extractor
MaxEntries == 3

\* the books of the references in the texts: canonical names, English
\* names, an abbreviation, a token that is no book
XrefBooks ==
    {<<"J", "o", "h", "a", "n", "n", "e", "s">>, <<"1", " ", "S", "a", "m", "u", "ë", "l">>, <<"J", "o", "h", "n">>, <<"1", " ", "J", "o", "h", "n">>, <<"J", "o", "h">>, <<"Q", "q", "q">>}

\* their chapters, verses and verse ends: one verse, a range, a range that
\* ends before it starts
XrefSpans == {<<3, 16, NoneInt>>, <<3, 16, 18>>, <<1, 5, 3>>}

\* the references of the texts
XrefItems ==
    {CrossReference(b, sp[1], sp[2], sp[3]) : b \in XrefBooks, sp \in XrefSpans}

\* the entries of the passage lists: references, and entries that state a
\* verse or a range of verses only (no book, no chapter)
PassageEntries ==
    {CrossReference(<<"J", "o", "h", "n">>, 11, 51, NoneInt),
     CrossReference(NoneStr, NoneInt, 52, NoneInt),
     CrossReference(<<"1", " ", "J", "o", "h", "n">>, 2, 2, NoneInt),
     CrossReference(<<"J", "o", "h">>, 3, 16, 18),
     CrossReference(NoneStr, NoneInt, 17, 18),
     CrossReference(<<"Q", "q", "q">>, 1, 2, NoneInt)}

RECURSIVE ListsOf(_, _)
\* the sequences of at most n elements of S
ListsOf(S, n) ==
    IF n = 0 THEN {<<>>}
    ELSE LET shorter == ListsOf(S, n - 1)
         IN  shorter \cup {Append(l, x) : l \in shorter, x \in S}

\* the text that states the references items, one after the other
TextOf(items) == Join([k \in 1..Len(items) |-> reference(items[k])], <<";", " ">>)

\* how a passage list states entry e: a verse or a range of verses right
\* after the comma, a reference after a comma and a space
EntryText(e) ==
    IF e.book # NoneStr THEN <<" ">> \o reference(e)
    ELSE IntToStr(e.verse)
         \o (IF e.verse_end # NoneInt THEN <<"-">> \o IntToStr(e.verse_end)
             ELSE <<>>)

\* the passage list of the entries, as "John 11:51,52, 1 John 2:2"
PassageOf(entries) ==
    Strip(Join([k \in 1..Len(entries) |-> EntryText(entries[k])], <<",">>))

\* a scripRef tag with the passage list, and a cross-reference note with
\* the text
ScripRefTag(passage) ==
    <<"<", "s", "c", "r", "i", "p", "R", "e", "f", " ", "p", "a", "s", "s", "a", "g", "e", "=", "\"">> \o passage \o <<"\"", ">", "x", "<", "/", "s", "c", "r", "i", "p", "R", "e", "f", ">">>
XrefNote(text) == <<"<", "n", "o", "t", "e", " ", "t", "y", "p", "e", "=", "\"", "c", "r", "o", "s", "s", "R", "e", "f", "e", "r", "e", "n", "c", "e", "\"", ">">> \o text \o <<"<", "/", "n", "o", "t", "e", ">">>

ParsePassage ==
    \E entries \in ListsOf(PassageEntries, MaxEntries) \ {<<>>} :
        /\ fn = "idle"
        /\ fn' = "_parse_passage"
        /\ arg' = [items |-> entries, text |-> PassageOf(entries)]
        /\ ret' = _parse_passage(PassageOf(entries))
        /\ UNCHANGED <<crossref_backend, other_objects>>

ParsePassageString ==
    \E entries \in ListsOf(PassageEntries, MaxEntries) \ {<<>>} :
        /\ fn = "idle"
        /\ fn' = "_parse_passage_string"
        /\ arg' = [items |-> entries, text |-> PassageOf(entries)]
        /\ ret' = _parse_passage_string(PassageOf(entries))
        /\ UNCHANGED <<crossref_backend, other_objects>>

ParseScriprefTags ==
    \E entries \in ListsOf(PassageEntries, MaxEntries - 1) \ {<<>>} :
        LET output == ScripRefTag(PassageOf(entries))
        IN  /\ fn = "idle"
            /\ fn' = "_parse_scripref_tags"
            /\ arg' = [items |-> entries, text |-> output]
            /\ ret' = _parse_scripref_tags(output)
            /\ UNCHANGED <<crossref_backend, other_objects>>

ParseSimpleRefs ==
    \E items \in ListsOf(XrefItems, MaxItems) \ {<<>>} :
        /\ fn = "idle"
        /\ fn' = "_parse_simple_refs"
        /\ arg' = [items |-> items, text |-> TextOf(items)]
        /\ ret' = _parse_simple_refs(TextOf(items))
        /\ UNCHANGED <<crossref_backend, other_objects>>

ParsePlainRefs ==
    \E items \in ListsOf(XrefItems, MaxItems) \ {<<>>} :
        /\ fn = "idle"
        /\ fn' = "_parse_plain_refs"
        /\ arg' = [items |-> items, text |-> TextOf(items)]
        /\ ret' = _parse_plain_refs(TextOf(items))
        /\ UNCHANGED <<crossref_backend, other_objects>>

ParseOsisCrossrefs ==
    \E items \in ListsOf(XrefItems, MaxItems) \ {<<>>} :
        LET output == XrefNote(TextOf(items))
        IN  /\ fn = "idle"
            /\ fn' = "_parse_osis_crossrefs"
            /\ arg' = [items |-> items, text |-> output]
            /\ ret' = _parse_osis_crossrefs(output)
            /\ UNCHANGED <<crossref_backend, other_objects>>

\* a commentary text: a scripRef tag with at most one passage entry, then a
\* note with at most one reference
ExtractCrossrefs ==
    \E entries \in ListsOf(PassageEntries, 1), items \in ListsOf(XrefItems, 1) :
        LET text == (IF entries # <<>> THEN ScripRefTag(PassageOf(entries))
                     ELSE <<>>)
                    \o <<" ">>
                    \o (IF items # <<>> THEN XrefNote(TextOf(items)) ELSE <<>>)
        IN  /\ fn = "idle"
            /\ fn' = "_extract_crossrefs"
            /\ arg' = [items |-> entries \o items, text |-> text,
                       module |-> <<"D", "u", "t", "K", "a", "n", "t">>]
            /\ ret' = _extract_crossrefs(text)
            /\ UNCHANGED <<crossref_backend, other_objects>>

NextXref ==
    \/ ParsePassage \/ ParsePassageString \/ ParseScriprefTags
    \/ ParseSimpleRefs \/ ParsePlainRefs \/ ParseOsisCrossrefs
    \/ ExtractCrossrefs \/ Return

SpecXref == Init /\ [][NextXref]_vars

\* the modules the engine may have installed
InstallableModules == {<<"T", "S", "K">>, <<"D", "u", "t", "K", "a", "n", "t">>}

\* what the engine may give for a module: no result, a failure, plain
\* references, a scripRef tag
ProcResults ==
    {Raised, Exited(1, <<>>),
     Exited(0, <<"J", "o", "h", "n", " ", "3", ":", "1", "6", ";", " ", "J", "o", "h", "n", " ", "3", ":", "1", "6", "-", "1", "8">>),
     Exited(0, <<"J", "o", "h", "n", " ", "3", ":", "1", "6">>),
     Exited(0, ScripRefTag(<<"P", "s", " ", "1", "1", "9", ":", "1", "0", "5", ",", "1", "0", "6">>))}

\* CrossRefBackend.lookup; the engine's answers are any
Lookup ==
    \E sources \in {<<>>, <<<<"D", "u", "t", "K", "a", "n", "t">>>>, <<<<"D", "u", "t", "K", "a", "n", "t">>, <<"T", "S", "K">>>>},
       which \in (IF crossref_backend._checked THEN {TRUE} ELSE BOOLEAN),
       installed \in (IF crossref_backend._checked THEN {{}}
                      ELSE SUBSET InstallableModules),
       run \in [InstallableModules -> ProcResults] :
        LET self == IF crossref_backend._checked THEN crossref_backend
                    ELSE _detect_modules(crossref_backend, which, installed)
        IN  /\ fn = "idle"
            /\ fn' = "lookup"
            /\ arg' = [book |-> <<"J", "o", "h", "n">>, chapter |-> 3, verse |-> 16,
                       sources |-> sources, run |-> run]
            /\ ret' = lookup(self, <<"J", "o", "h", "n">>, 3, 16, sources, run)
            /\ crossref_backend' = self
            /\ UNCHANGED other_objects

NextMerge == Lookup \/ ExtractCrossrefs \/ Return

SpecMerge == Init /\ [][NextMerge]_vars

\* the most reference tags in a text given to the grouped extraction
MaxTags == 3

\* a reference tag and the gap before it: the gap's plain text, whether the
\* gap wraps it in markup, the reference of the key, and how the key states
\* the range: not at all, with a full trailing token, with the verse only
GroupTag(gap, markup, book, chapter, verse, range, verse_end) ==
    [gap |-> gap, markup |-> markup, book |-> book, chapter |-> chapter,
     verse |-> verse, range |-> range, verse_end |-> verse_end]

\* the tags of the texts: after a keyword, after separator punctuation,
\* after a short fragment with a period, after a word without a period,
\* after a keyword in markup, right after the tag before
GroupTags ==
    {GroupTag(<<"l", "o", "v", "e", ".">>, FALSE, <<"J", "o", "h", "n">>, 3, 16, "none", NoneInt),
     GroupTag(<<";", " ">>, FALSE, <<"J", "o", "h", "n">>, 3, 17, "full", 18),
     GroupTag(<<"i", "n", ".">>, FALSE, <<"G", "e", "n">>, 1, 1, "none", NoneInt),
     GroupTag(<<"f", "a", "i", "t", "h", " ">>, FALSE, <<"G", "e", "n">>, 1, 2, "verse", 3),
     GroupTag(<<"h", "o", "p", "e", ".", " ">>, TRUE, <<"R", "o", "m">>, 5, 6, "full", 8),
     GroupTag(<<>>, FALSE, <<"R", "o", "m">>, 5, 9, "none", NoneInt)}

\* the structured key of the tag: Book.Chapter.Verse, and the range part
KeyText(t) ==
    t.book \o <<".">> \o IntToStr(t.chapter) \o <<".">> \o IntToStr(t.verse)
    \o (IF t.range = "full"
        THEN <<"-">> \o t.book \o <<".">> \o IntToStr(t.chapter) \o <<".">>
             \o IntToStr(t.verse_end)
        ELSE IF t.range = "verse" THEN <<"-">> \o IntToStr(t.verse_end)
        ELSE <<>>)

\* the gap and the reference tag
TagText(t) ==
    (IF t.markup THEN <<"<", "h", "i", ">">> \o t.gap \o <<"<", "/", "h", "i", ">">> ELSE t.gap)
    \o <<"<", "r", "e", "f", "e", "r", "e", "n", "c", "e", " ", "o", "s", "i", "s", "R", "e", "f", "=", "\"">> \o KeyText(t) \o <<"\"", ">", "x", "<", "/", "r", "e", "f", "e", "r", "e", "n", "c", "e", ">">>

\* the engine's output for the tags: one verse element
GroupsText(tags) ==
    <<"<", "v", "e", "r", "s", "e", ">">> \o Join([k \in 1..Len(tags) |-> TagText(tags[k])], <<>>)
    \o <<"<", "/", "v", "e", "r", "s", "e", ">">>

\* what the table _OSIS_TO_CANON may hold
OsisTables == {DictOf(<<>>), DictOf(<<<<<<"J", "o", "h", "n">>, <<"J", "o", "h", "a", "n", "n", "e", "s">>>>>>)}

\* the texts hold at most MaxTags of the tags, each tag once
TagLists ==
    {l \in ListsOf(GroupTags, MaxTags) \ {<<>>} :
        \A i, j \in 1..Len(l) : l[i] = l[j] => i = j}

ExtractKeywordGroups ==
    \E tags \in TagLists, table \in OsisTables :
        /\ fn = "idle"
        /\ fn' = "_extract_keyword_groups"
        /\ arg' = [items |-> tags, text |-> GroupsText(tags),
                   osis_to_canon |-> table]
        /\ ret' = _extract_keyword_groups(GroupsText(tags), table)
        /\ UNCHANGED <<crossref_backend, other_objects>>

NextGroups == ExtractKeywordGroups \/ Return

SpecGroups == Init /\ [][NextGroups]_vars

\* the parts of a text that are present, in order
Masked(parts, mask) ==
    Join([k \in 1..Len(parts) |-> IF mask[k] THEN parts[k] ELSE <<>>], <<>>)

\* the texts made of some of the parts, in order
TextsOf(parts) ==
    {Masked(parts, mask) : mask \in [1..Len(parts) -> BOOLEAN]}

\* entries of the TEI/XML dialect
XmlTexts ==
    {<<"<", "e", "n", "t", "r", "y", "F", "r", "e", "e", " ", "n", "=", "\"", "G", "2", "6", "\"", ">">> \o body \o <<"<", "/", "e", "n", "t", "r", "y", "F", "r", "e", "e", ">">> :
        body \in TextsOf(<<<<"<", "t", "i", "t", "l", "e", ">", "G", "2", "6", "<", "/", "t", "i", "t", "l", "e", ">">>, <<"<", "o", "r", "t", "h", ">", "ë", "ï", "<", "/", "o", "r", "t", "h", ">">>,
                           <<"<", "o", "r", "t", "h", " ", "t", "y", "p", "e", "=", "\"", "t", "r", "a", "n", "s", "\"", ">", "a", "g", "a", "p", "e", "<", "/", "o", "r", "t", "h", ">">>,
                           <<"<", "p", "r", "o", "n", ">", "a", "g", "-", "a", "h", "-", "p", "a", "y", "<", "/", "p", "r", "o", "n", ">">>,
                           <<"<", "d", "e", "f", ">", "l", "o", "v", "e", " ", "&", "a", "m", "p", ";", " ", "<", "h", "i", ">", "c", "h", "a", "r", "i", "t", "y", "<", "/", "h", "i", ">", "<", "/", "d", "e", "f", ">">>>>)}
    \cup {<<"<", "e", "n", "t", "r", "y", "F", "r", "e", "e", " ", "n", "=", "\"", "G", "2", "6", "\"", ">", "<", "o", "r", "t", "h", ">", "ë", "ï", "<", "/", "o", "r", "t", "h", ">", "<", "d", "e", "f", ">", "<", "/", "d", "e", "f", ">", "<", "/", "e", "n", "t", "r", "y", "F", "r", "e", "e", ">">>}

\* entries of the HTML dialect
HtmlTexts ==
    TextsOf(<<<<"0", "0", "4", "3", "0", ":", " ">>, <<"<", "b", ">", "ë", "ï", "<", "/", "b", ">">>, <<" ", "[", "'", "e", "l", "o", "h", "i", "y", "m", "]">>, <<" ", "\\", "<", "i", ">", "e", "l", "-", "o", "-", "h", "e", "e", "m", "<", "/", "i", ">", "\\">>,
              <<"<", "b", "r", " ", "/", ">">>, <<"g", "o", "d", "s", " ">>, <<"<", "a", " ", "h", "r", "e", "f", "=", "\"", "x", "\"", ">", "H", "4", "3", "3", "<", "/", "a", ">">>,
              <<"\n", "(", "S", "t", "r", "o", "n", "g", "s", "R", "e", "a", "l", "H", "e", "b", "r", "e", "w", ")">>>>)

\* entries of the plain text dialect
PlainTexts ==
    TextsOf(<<<<"0", "0", "4", "3", "0", ":">>, <<" ", " ", "4", "3", "0">>, <<" ", " ", "'", "e", "l", "o", "h", "i", "y", "m">>, <<" ", " ", "e", "l", "-", "o", "-", "h", "e", "e", "m", "'">>,
              <<"\n", " ", "p", "l", "u", "r", "a", "l", " ", "o", "f", " ", "H", "4", "3", "3", ";">>, <<"\n", " ", "g", "o", "d", "s", " ", "&", "a", "m", "p", ";", " ", "<", "u", ">", "j", "u", "d", "g", "e", "s", "<", "/", "u", ">">>,
              <<"\n", "(", "S", "t", "r", "o", "n", "g", "s", "H", "e", "b", "r", "e", "w", ")">>>>)

\* DictionaryBackend._parse_entry on the raw output of a module
ParseEntry ==
    \E raw_text \in XmlTexts \cup HtmlTexts \cup PlainTexts,
       strongs_number \in {<<"G", "2", "6">>, <<"H", "4", "3", "0">>} :
        /\ fn = "idle"
        /\ fn' = "_parse_entry"
        /\ arg' = [module |-> <<"S", "t", "r", "o", "n", "g", "s", "G", "r", "e", "e", "k">>, strongs_number |-> strongs_number,
                   raw_text |-> raw_text]
        /\ ret' = _parse_entry(<<"S", "t", "r", "o", "n", "g", "s", "G", "r", "e", "e", "k">>, strongs_number, raw_text)
        /\ UNCHANGED <<crossref_backend, other_objects>>

NextParse == ParseEntry \/ Return

SpecParse == Init /\ [][NextParse]_vars

\* the dictionary modules that are asked
DictModules == {<<"S", "t", "r", "o", "n", "g", "s", "H", "e", "b", "r", "e", "w">>, <<"B", "D", "B">>}

\* outputs of the engine for a dictionary module: the entry of the key in
\* the XML and in the plain dialect, the entry of another key, no entry
TitledEntry ==
    <<"<", "e", "n", "t", "r", "y", "F", "r", "e", "e", " ", "n", "=", "\"", "H", "4", "3", "0", "\"", ">", "<", "t", "i", "t", "l", "e", ">", "H", "4", "3", "0", "<", "/", "t", "i", "t", "l", "e", ">", "<", "o", "r", "t", "h", ">", "ë", "ï", "<", "/", "o", "r", "t", "h", ">">>
    \o <<"<", "d", "e", "f", ">", "g", "o", "d", "s", "<", "/", "d", "e", "f", ">", "<", "/", "e", "n", "t", "r", "y", "F", "r", "e", "e", ">", "\n">>
NumberedEntry == <<"0", "0", "4", "3", "0", ":", " ", " ", "4", "3", "0", " ", " ", "'", "e", "l", "o", "h", "i", "y", "m", " ", " ", "e", "l", "-", "o", "-", "h", "e", "e", "m", "'", "\n", " ", "g", "o", "d", "s", "\n">>
OtherEntry ==
    <<"<", "e", "n", "t", "r", "y", "F", "r", "e", "e", " ", "n", "=", "\"", "G", "4", "3", "0", "\"", ">", "<", "t", "i", "t", "l", "e", ">", "G", "4", "3", "0", "<", "/", "t", "i", "t", "l", "e", ">", "<", "o", "r", "t", "h", ">", "ü", "ï", "<", "/", "o", "r", "t", "h", ">">>
    \o <<"<", "d", "e", "f", ">", "t", "o", " ", "b", "e", "a", "r", "<", "/", "d", "e", "f", ">", "<", "/", "e", "n", "t", "r", "y", "F", "r", "e", "e", ">", "\n">>
NotFound == <<"E", "n", "t", "r", "y", " ", "n", "o", "t", " ", "f", "o", "u", "n", "d", "\n">>

\* what subprocess.run may give for a dictionary module and a key
DictResults ==
    {Raised, Exited(1, <<>>), Exited(0, <<>>), Exited(0, NotFound),
     Exited(0, TitledEntry), Exited(0, NumberedEntry), Exited(0, OtherEntry)}

\* one run of diatheke by _lookup_single
Run(module, key, proc) == [module |-> module, key |-> key, proc |-> proc]

\* DictionaryBackend._lookup_single is called, as lookup_strongs calls it
LookupSingle ==
    \E strongs_number \in {<<"H", "4", "3", "0">>, <<"h", "4", "3", "0">>}, module \in DictModules :
        /\ fn = "idle"
        /\ fn' = "_lookup_single"
        /\ arg' = [strongs_number |-> strongs_number,
                   number |-> NumberOf(Upper(strongs_number),
                                       ReMatchAt(StrongsNumber, 1,
                                                 Upper(strongs_number), 1)),
                   module |-> module]
        /\ ret' = NoEntry
        /\ pc' = "numeric"
        /\ diatheke_runs' = <<>>
        /\ UNCHANGED <<crossref_backend, dictionary_backend, tab_manager, jumplist,
                       bible_view, app>>

\* _lookup_single runs diatheke with the number only, and goes on to the
\* full key unless the run raised or gave the right entry
RunNumeric ==
    \E proc \in DictResults :
        /\ pc = "numeric"
        /\ diatheke_runs' =
               Append(diatheke_runs, Run(arg.module, arg.number, proc))
        /\ IF proc.raised
           THEN pc' = "done" /\ ret' = NoEntry
           ELSE IF GotCorrectEntry(arg.strongs_number, arg.number, proc)
           THEN /\ pc' = "done"
                /\ ret' = EntryOfProc(arg.module, arg.strongs_number, proc)
           ELSE pc' = "prefixed" /\ ret' = ret
        /\ UNCHANGED <<fn, arg, crossref_backend, dictionary_backend,
                       tab_manager, jumplist, bible_view, app>>

\* _lookup_single runs diatheke with the full key and returns
RunPrefixed ==
    \E proc \in DictResults :
        /\ pc = "prefixed"
        /\ diatheke_runs' =
               Append(diatheke_runs,
                      Run(arg.module, Upper(arg.strongs_number), proc))
        /\ pc' = "done"
        /\ ret' = IF proc.raised THEN NoEntry
                  ELSE EntryOfProc(arg.module, arg.strongs_number, proc)
        /\ UNCHANGED <<fn, arg, crossref_backend, dictionary_backend,
                       tab_manager, jumplist, bible_view, app>>

NextSingle == LookupSingle \/ RunNumeric \/ RunPrefixed \/ Return

SpecSingle == Init /\ [][NextSingle]_vars

\* the application makes its DictionaryBackend; diatheke is on the path or
\* it is not
NewDictionaryBackend ==
    \E available \in BOOLEAN :
        /\ fn = "idle"
        /\ fn' = "DictionaryBackend"
        /\ arg' = <<>>
        /\ ret' = <<>>
        /\ dictionary_backend' = DictionaryBackend(available)
        /\ UNCHANGED <<crossref_backend, pc, diatheke_runs, tab_manager, jumplist,
                       bible_view, app>>

\* what the two runs of _lookup_single may give for one module
BothRuns(numeric, prefixed) == [numeric |-> numeric, prefixed |-> prefixed]
ModuleRuns ==
    {BothRuns(Exited(0, NumberedEntry), Raised),
     BothRuns(Exited(0, OtherEntry), Exited(0, TitledEntry)),
     BothRuns(Raised, Exited(0, TitledEntry)),
     BothRuns(Exited(1, <<>>), Exited(1, <<>>)),
     BothRuns(Exited(0, NotFound), Exited(0, <<>>))}

\* the lists of dictionary modules that are asked
ModuleLists ==
    {<<>>, <<<<"S", "t", "r", "o", "n", "g", "s", "H", "e", "b", "r", "e", "w">>>>, <<<<"S", "t", "r", "o", "n", "g", "s", "H", "e", "b", "r", "e", "w">>, <<"B", "D", "B">>>>,
     <<<<"B", "D", "B">>, <<"S", "t", "r", "o", "n", "g", "s", "H", "e", "b", "r", "e", "w">>>>, <<<<"B", "D", "B">>, <<"B", "D", "B">>>>}

\* DictionaryBackend.lookup_strongs; the engine's answers are any
LookupStrongs ==
    \E strongs_number \in {<<"h", "4", "3", "0">>, <<>>, <<"H", "X">>},
       modules \in ModuleLists,
       run \in [DictModules -> ModuleRuns] :
        /\ fn = "idle"
        /\ dictionary_backend # NoBackend
        /\ fn' = "lookup_strongs"
        /\ arg' = [strongs_number |-> strongs_number, modules |-> modules,
                   run |-> run]
        /\ ret' = lookup_strongs(dictionary_backend, strongs_number, modules,
                                 run)
        /\ UNCHANGED <<crossref_backend, other_objects>>

NextAggregate == NewDictionaryBackend \/ LookupStrongs \/ Lookup \/ Return

SpecAggregate == Init /\ [][NextAggregate]_vars

\* the most items on one line of a search listing
MaxLineRefs == 2

\* an item of a search listing: a reference of the engine, or a text that
\* is no reference (chapter and verse NoneInt)
SearchItem(book, chapter, verse) ==
    [book |-> book, chapter |-> chapter, verse |-> verse]
SearchItems ==
    {SearchItem(<<"G", "e", "n", "e", "s", "i", "s">>, 1, 1), SearchItem(<<"I", " ", "K", "i", "n", "g", "s">>, 2, 13),
     SearchItem(<<"J", "o", "h", "n", " ", "3">>, NoneInt, NoneInt)}

\* how the listing states an item
ItemText(item) ==
    IF item.chapter = NoneInt THEN item.book
    ELSE item.book \o <<" ">> \o IntToStr(item.chapter) \o <<":">>
         \o IntToStr(item.verse)

\* one line of items, delimited by " ; "
ItemsText(items) ==
    Join([k \in 1..Len(items) |-> ItemText(items[k])], <<" ", ";", " ">>)

\* the listing of the engine: the header with the items inline after "--",
\* the reference lines, the footer
ListingText(query, inline, lines) ==
    <<"E", "n", "t", "r", "i", "e", "s", " ", "c", "o", "n", "t", "a", "i", "n", "i", "n", "g", " ", "\"">> \o query \o <<"\"", "-", "-", " ">> \o ItemsText(inline) \o <<"\n">>
    \o Join([k \in 1..Len(lines) |-> ItemsText(lines[k]) \o <<"\n">>], <<>>)
    \o <<"-", "-", " ">> \o IntToStr(Len(inline) + Len(lines)) \o <<" ", "m", "a", "t", "c", "h", "e", "s", " ", "t", "o", "t", "a", "l", " ", "(", "K", "J", "V", ")", "\n">>

\* the reference lines of a listing: none, one line, or a line and a line
\* of one item
ListingLines ==
    {<<>>}
    \cup {<<items>> : items \in ListsOf(SearchItems, MaxLineRefs)}
    \cup {<<items, <<item>>>> :
              items \in ListsOf(SearchItems, MaxLineRefs),
              item \in SearchItems}

\* DiathekeBackend._parse_search on a listing of the engine, without
\* snippets or with the verse lookup_verse gives for each hit
ParseSearch ==
    \E inline \in ListsOf(SearchItems, 1),
       lines \in ListingLines,
       snippets \in {<<FALSE, NoneStr>>,
                     <<TRUE, VerseSegment(<<"G", "e", "n", "e", "s", "i", "s">>, 1, 1, <<"G", "o", "d", " ", "i", "s", " ", "L", "o", "v", "e">>,
                                          <<>>)>>} :
        /\ fn = "idle"
        /\ fn' = "_parse_search"
        /\ arg' = [text |-> ListingText(<<"l", "o", "v", "e">>, inline, lines),
                   query |-> <<"l", "o", "v", "e">>, fetch_snippets |-> snippets[1],
                   inline |-> inline, lines |-> lines]
        /\ ret' = _parse_search(ListingText(<<"l", "o", "v", "e">>, inline, lines), <<"l", "o", "v", "e">>,
                                snippets[1],
                                [i \in 1..(MaxLineRefs + 2) |->
                                    snippets[2]])
        /\ UNCHANGED <<crossref_backend, other_objects>>

NextSearch == ParseSearch \/ Return

SpecSearch == Init /\ [][NextSearch]_vars

\* the longest text of a name that is searched for
MaxQueryLen == 2

\* the texts of at most MaxQueryLen characters in the names, abbreviations
\* and aliases of the books, as they are written
QueryTexts ==
    UNION {{SubSeq(h, x[1], x[1] + x[2] - 1) :
               x \in {y \in (1..Len(h)) \X (1..MaxQueryLen) :
                          y[1] + y[2] - 1 <= Len(h)}} :
           h \in AllForms}

\* search_books for a text of a name, for a text of no name and for no text
SearchBooks ==
    \E query \in QueryTexts \cup {<<"z", "z">>, <<" ">>, <<" ", "J", "o", " ">>, <<"G", "E", "N">>},
       limit \in {0, 1, 15} :
        /\ fn = "idle"
        /\ fn' = "search_books"
        /\ arg' = [query |-> query, limit |-> limit]
        /\ ret' = search_books(query, limit)
        /\ UNCHANGED <<crossref_backend, other_objects>>

NextBooks == SearchBooks \/ Return

SpecBooks == Init /\ [][NextBooks]_vars

\* the indexes a caller may give: the valid ones, -1, and those up to
\* MAX_TABS, which no tab has
TabIndexes == (-1)..MAX_TABS

\* a method of TabManager is called: the manager is left as the method
\* leaves it, and the value is returned
TabCall(name, args, result) ==
    /\ fn = "idle"
    /\ fn' = name
    /\ arg' = args
    /\ ret' = result.value
    /\ tab_manager' = result.self
    /\ UNCHANGED <<crossref_backend, dictionary_backend, pc, diatheke_runs,
                   jumplist, bible_view, app>>

\* a tab whose every field differs from the default, as _capture_tab_state
\* leaves a tab that was used
UsedTabState ==
    [name |-> <<"R", "o", "m">>, book |-> <<"R", "o", "m", "a", "n", "s">>, chapter |-> 8, verse |-> 28,
     module |-> <<"K", "J", "V">>, in_parallel_mode |-> TRUE, in_study_mode |-> TRUE,
     in_strongs_mode |-> TRUE, in_crossref_mode |-> TRUE,
     in_jumplist_mode |-> TRUE, secondary_module |-> <<"D", "u", "t", "S", "V", "V">>,
     right_book |-> <<"J", "o", "h", "n">>, right_chapter |-> 3, panes_linked |-> FALSE,
     active_pane |-> <<"r", "i", "g", "h", "t">>, study_commentary_module |-> <<"M", "H", "C">>,
     study_active_pane |-> 2, study_include_bible_xrefs |-> TRUE,
     strongs_filter |-> TRUE, footnotes_filter |-> TRUE,
     crossref_pane_focused |-> TRUE, strongs_pane_focused |-> TRUE,
     _jumplist_ref |-> record(JumpList, <<"G", "e", "n", "e", "s", "i", "s">>, 1, 1).self]

\* TabManager.new_tab, with no state or with a state
NewTab ==
    \E state \in {NoState, <<UsedTabState>>} :
        TabCall("new_tab", [state |-> state], new_tab(tab_manager, state))

\* TabManager.close_tab, with no index or with an index
CloseTab ==
    \E index \in {NoIndex} \cup {<<i>> : i \in TabIndexes} :
        TabCall("close_tab", [index |-> index], close_tab(tab_manager, index))

\* TabManager.switch_to
SwitchTo ==
    \E index \in TabIndexes :
        TabCall("switch_to", [index |-> index], switch_to(tab_manager, index))

\* TabManager.next_tab
NextTab == TabCall("next_tab", <<>>, next_tab(tab_manager))

\* TabManager.prev_tab
PrevTab == TabCall("prev_tab", <<>>, prev_tab(tab_manager))

\* TabManager.from_list(mgr.to_list(), mgr.active_index), as the configuration
\* is written at exit and read at the next start
ToListFromList ==
    /\ fn = "idle"
    /\ fn' = "from_list"
    /\ arg' = [data |-> to_list(tab_manager),
               active |-> tab_manager._active_index]
    /\ ret' = from_list(arg'.data, arg'.active)
    /\ UNCHANGED <<crossref_backend, other_objects>>

NextTabs ==
    NewTab \/ CloseTab \/ SwitchTo \/ NextTab \/ PrevTab \/ ToListFromList
    \/ Return

SpecTabs == Init /\ [][NextTabs]_vars

\* the first words of the commands typed: the aliases and the names of the
\* commands, the tab commands and their short forms, in either case
CommandWords ==
    DOMAIN COMMAND_ALIASES
    \cup {get_command_names[k] : k \in 1..Len(get_command_names)}
    \cup {<<"t", "n">>, <<"t", "c">>, <<"t", "a", "b", "n", "e", "w">>, <<"t", "a", "b", "c", "l", "o", "s", "e">>, <<"t", "a", "b", "n", "a", "m", "e">>, <<"T", "N">>, <<"Q">>, <<"M", "o", "d">>,
          <<"z", "z">>}

\* what follows the first word
CommandTails ==
    {<<>>, <<" ", "G", "e", "n", " ", "1", ":", "5">>, <<" ", "-", "-", "f", "m", "t", "=", "h", "t", "m", "l", " ", "G", "e", "n", " ", "1", ":", "1", "-", "5", " ", "-", "v">>, <<" ", "a", "d", "d", " ", "\"", "M", "y">>, <<" ", " ", "D", "u", "t", "S", "V", "V", " ">>,
     <<" ", "-", "-", "a", "=", "b", "=", "c", " ", "-", "-", "a", " ", "-">>}

\* the command texts: a word and a tail, and texts without a word
CommandTexts ==
    {word \o tail : word \in CommandWords, tail \in CommandTails}
    \cup {<<" ">> \o word : word \in CommandWords}
    \cup {<<>>, <<" ", " ">>}

\* parse_command is called
ParseCommand ==
    \E command_str \in CommandTexts :
        /\ fn = "idle"
        /\ fn' = "parse_command"
        /\ arg' = [command_str |-> command_str]
        /\ ret' = parse_command(command_str)
        /\ UNCHANGED <<crossref_backend, other_objects>>

\* get_command_names is called
GetCommandNames ==
    /\ fn = "idle"
    /\ fn' = "get_command_names"
    /\ arg' = <<>>
    /\ ret' = get_command_names
    /\ UNCHANGED <<crossref_backend, other_objects>>

NextCommands == ParseCommand \/ GetCommandNames \/ Return

SpecCommands == Init /\ [][NextCommands]_vars

\* the longest list that record and back may still make longer in the calls
\* below
MaxJumpLen == 4

\* the locations that are recorded and passed as the current position
JumpLocations ==
    {JumpEntry(<<"G", "e", "n", "e", "s", "i", "s">>, 1, 1), JumpEntry(<<"G", "e", "n", "e", "s", "i", "s">>, 1, 2),
     JumpEntry(<<"E", "x", "o", "d", "u", "s">>, 2, 1)}

\* the indexes a caller may give to jump_to: the valid ones, -1, and one
\* that no list below has
JumpIndexes == (-1)..MaxJumpLen

\* a method of JumpList is called: the list is left as the method leaves
\* it, and the value is returned
JumpCall(name, args, result) ==
    /\ fn = "idle"
    /\ fn' = name
    /\ arg' = args
    /\ ret' = result.value
    /\ jumplist' = result.self
    /\ UNCHANGED <<crossref_backend, dictionary_backend, pc, diatheke_runs, app>>
    /\ UNCHANGED <<tab_manager, bible_view, app>>

\* record is called with one of the locations
RecordOf(locations) ==
    \E entry \in locations :
        JumpCall("record", entry,
                 record(jumplist, entry.book, entry.chapter, entry.verse))

\* back is called with one of the locations as the current position
BackOf(locations) ==
    \E current \in locations :
        JumpCall("back", current,
                 back(jumplist, current.book, current.chapter, current.verse))

Record == Len(jumplist._entries) < MaxJumpLen /\ RecordOf(JumpLocations)

Back == Len(jumplist._entries) < MaxJumpLen /\ BackOf(JumpLocations)

Forward == JumpCall("forward", <<>>, forward(jumplist))

JumpTo ==
    \E index \in JumpIndexes :
        JumpCall("jump_to", [index |-> index], jump_to(jumplist, index))

NextJump == Record \/ Back \/ Forward \/ JumpTo \/ Return

SpecJump == Init /\ [][NextJump]_vars

\* the one location that is recorded until the list is full, and the two
\* that are passed to back
FullOf == JumpEntry(<<"G", "e", "n", "e", "s", "i", "s">>, 1, 1)
BackFrom == {FullOf, JumpEntry(<<"G", "e", "n", "e", "s", "i", "s">>, 2, 1)}

RecordSame == RecordOf({FullOf})

BackFromEither == BackOf(BackFrom)

NextJumpCap == RecordSame \/ BackFromEither \/ Return

SpecJumpCap == Init /\ [][NextJumpCap]_vars

\* the highest verse number of the chapters below
MaxVerse == 4

\* the chapters that a module may hold: every choice of the verses 1 to
\* MaxVerse, in order, as segments without text; a chapter may lack verses
\* and may be empty
SegmentsOf(book, chapter, verses) ==
    Let(SelectSeq([v \in 1..MaxVerse |-> v], LAMBDA v : v \in verses),
        LAMBDA numbers : [k \in 1..Len(numbers) |->
                             VerseSegment(book, chapter, numbers[k], <<>>, <<>>)])
SegmentLists == {SegmentsOf(<<"G", "e", "n", "e", "s", "i", "s">>, 1, verses) : verses \in SUBSET (1..MaxVerse)}

\* a method of BibleView is called: the view is left as the method leaves
\* it, and the value is returned
ViewCall(name, args, result) ==
    /\ fn = "idle"
    /\ fn' = name
    /\ arg' = args
    /\ ret' = result.value
    /\ bible_view' = result.self
    /\ UNCHANGED <<crossref_backend, dictionary_backend, pc, diatheke_runs, app>>
    /\ UNCHANGED <<tab_manager, jumplist, app>>

UpdateContent ==
    \E segments \in SegmentLists :
        ViewCall("update_content", [segments |-> segments],
                 update_content(bible_view, segments))

SetCurrentVerse ==
    \E verse \in 0..(MaxVerse + 1) :
        ViewCall("set_current_verse", [verse |-> verse],
                 set_current_verse(bible_view, verse))

MoveToVerse ==
    \E verse \in 0..(MaxVerse + 1) :
        ViewCall("move_to_verse", [verse |-> verse],
                 move_to_verse(bible_view, verse))

NextVerse == ViewCall("next_verse", <<>>, next_verse(bible_view))

PrevVerse == ViewCall("prev_verse", <<>>, prev_verse(bible_view))

FirstVerse == ViewCall("first_verse", <<>>, first_verse(bible_view))

LastVerse == ViewCall("last_verse", <<>>, last_verse(bible_view))

NextView ==
    \/ UpdateContent \/ SetCurrentVerse \/ MoveToVerse \/ NextVerse
    \/ PrevVerse \/ FirstVerse \/ LastVerse \/ Return

SpecView == Init /\ [][NextView]_vars

\* the longest jumplist that the handlers below may still make longer
MaxNavJumps == 2

\* the handlers are called while they leave the application within the
\* first MaxNavBooks books of the canon and within MaxNavChapter chapters
\* of the beginning or the end of the book
MaxNavBooks == 2
MaxNavChapter == 2
InNavRegion(self) ==
    /\ book_index(self._current_book) < MaxNavBooks
    /\ \/ self._current_chapter <= MaxNavChapter
       \/ self._current_chapter
              > book_chapters(self._current_book) - MaxNavChapter

\* the most tabs that _tab_new may still add to
MaxAppTabs == 3

\* what get_installed_modules() may give
InstalledChoices == {<<<<"D", "u", "t", "S", "V", "V">>>>, <<<<"D", "u", "t", "S", "V", "V">>, <<"K", "J", "V">>>>}

\* the application is started without saved tabs: SwordApp is constructed
\* and mounted, with the modules and commentaries that are installed
NewSwordApp ==
    \E installed \in InstalledChoices, available \in BOOLEAN :
        /\ fn = "idle"
        /\ app = NoApp
        /\ fn' = "SwordApp"
        /\ arg' = <<>>
        /\ ret' = <<>>
        /\ app' = on_mount(SwordAppOf(installed, available))
        /\ UNCHANGED <<crossref_backend, dictionary_backend, pc, diatheke_runs>>
        /\ UNCHANGED <<tab_manager, jumplist, bible_view>>

\* a handler of the running application is called: the application is left
\* as the handler leaves it
AppCall(name, args, after) ==
    /\ fn = "idle"
    /\ app # NoApp
    /\ fn' = name
    /\ arg' = args
    /\ ret' = <<>>
    /\ InNavRegion(after)
    /\ app' = after
    /\ UNCHANGED <<crossref_backend, dictionary_backend, pc, diatheke_runs>>
    /\ UNCHANGED <<tab_manager, jumplist, bible_view>>

\* the handlers that may record a jump are called while the jumplist is
\* short
MayRecord == app # NoApp /\ Len(app._jumplist._entries) < MaxNavJumps

ActionNextVerse ==
    MayRecord /\ AppCall("action_next_verse", <<>>, action_next_verse(app))

ActionPrevVerse == AppCall("action_prev_verse", <<>>, action_prev_verse(app))

ActionPageDown == AppCall("action_page_down", <<>>, action_page_down(app))

ActionPageUp == AppCall("action_page_up", <<>>, action_page_up(app))

ActionNextChapter ==
    MayRecord /\ AppCall("action_next_chapter", <<>>, action_next_chapter(app))

ActionPrevChapter ==
    MayRecord /\ AppCall("action_prev_chapter", <<>>, action_prev_chapter(app))

ActionNextBook ==
    MayRecord /\ AppCall("action_next_book", <<>>, action_next_book(app))

ActionPrevBook ==
    MayRecord /\ AppCall("action_prev_book", <<>>, action_prev_book(app))

ActionFirstVerse ==
    MayRecord /\ AppCall("action_first_verse", <<>>, action_first_verse(app))

ActionLastVerse ==
    MayRecord /\ AppCall("action_last_verse", <<>>, action_last_verse(app))

\* action_jump_back may add the current position to a jumplist that the
\* handlers above have filled
ActionJumpBack ==
    /\ app # NoApp
    /\ Len(app._jumplist._entries) <= MaxNavJumps + 1
    /\ AppCall("action_jump_back", <<>>, action_jump_back(app))

ActionJumpForward ==
    AppCall("action_jump_forward", <<>>, action_jump_forward(app))

NextNav ==
    \/ NewSwordApp \/ ActionNextVerse \/ ActionPrevVerse \/ ActionPageDown
    \/ ActionPageUp \/ ActionNextChapter \/ ActionPrevChapter
    \/ ActionNextBook \/ ActionPrevBook \/ ActionFirstVerse
    \/ ActionLastVerse \/ ActionJumpBack \/ ActionJumpForward \/ Return

SpecNav == Init /\ [][NextNav]_vars

ActionToggleParallel ==
    AppCall("action_toggle_parallel", <<>>, action_toggle_parallel(app))

ActionToggleStudy ==
    AppCall("action_toggle_study", <<>>, action_toggle_study(app))

TabNew ==
    /\ app # NoApp
    /\ count(app._tab_manager) < MaxAppTabs
    /\ AppCall("_tab_new", <<>>, _tab_new(app))

SwitchTab ==
    \E index \in 0..(MaxAppTabs - 1) :
        AppCall("_switch_tab", [index |-> index], _switch_tab(app, index))

TabNextOrPrev ==
    \/ AppCall("_tab_next", <<>>, _tab_next(app))
    \/ AppCall("_tab_prev", <<>>, _tab_prev(app))

TabClose == AppCall("_tab_close", <<>>, _tab_close(app))

NextModes ==
    \/ NewSwordApp \/ ActionToggleParallel \/ ActionToggleStudy \/ TabNew
    \/ SwitchTab \/ TabNextOrPrev \/ TabClose \/ Return

SpecModes == Init /\ [][NextModes]_vars

-----------------------------------------------------------------------------
(* The claims.                                                             *)

\* the word texts joined with single spaces, whitespace collapsed, trimmed
JoinedWords(words) ==
    Strip(ReSub(_WHITESPACE, <<" ">>,
                Join([k \in 1..Len(words) |-> words[k].text], <<" ">>)))

\* C1: for every VerseSegment the verse parser emits, for any raw input,
\* joining the texts of its words with single spaces and collapsing
\* whitespace equals the segment's text field, leading and trailing
\* whitespace aside.
C1_TextIsJoinedWords ==
    fn = "_parse_lookup" =>
        \A k \in 1..Len(ret) : JoinedWords(ret[k].words) = Strip(ret[k].text)

\* C2: for every one of the 66 books of the canon table, resolving its
\* canonical name returns that name, and resolving its abbreviation returns
\* that name: no alias or abbreviation of another book shadows it.
C2_NameAndAbbrResolve ==
    /\ Len(_CANON_TABLE) = 66
    /\ fn = "resolve_alias" =>
          \A i \in 1..Len(_CANON_TABLE) :
              arg.alias \in {_CANON_TABLE[i].name, _CANON_TABLE[i].abbr}
                  => ret = _CANON_TABLE[i].name

\* a numbered book with a letter outside ASCII was resolved from its
\* abbreviation, and another from its name
C2_Witness ==
    /\ fn = "resolve_alias"
    /\ arg.alias = <<"2", "T", "i", "m">>
    /\ ret = <<"2", " ", "T", "i", "m", "o", "t", "h", "e", "ü", "s">>

\* C4: the output normalizer is idempotent: for every raw text, running it
\* on its own output, the lines joined again with line breaks, yields the
\* same lines as running it once.
C4_NormalizeIdempotent ==
    fn = "_normalize_lines" => _normalize_lines(Join(ret, <<"\n">>)) = ret

\* the exact matches resolve_alias tries before the fuzzy one
HasExactMatch(alias) ==
    LET token == Lower(Strip(alias))
    IN  \/ token \in DOMAIN _ALIAS_MAP
        \/ NormalizedForm(token) \in DOMAIN _ALIAS_MAP
        \/ \E i \in 1..Len(BOOK_ORDER) : Lower(BOOK_ORDER[i]) = token

\* the books with a name, abbreviation or alias whose normalized form starts
\* with n
BooksStartingWith(n) ==
    {i \in 1..Len(_CANON_TABLE) :
        \E f \in BookForms(i) : StartsWith(NormalizedForm(f), n)}

\* C3: for every (non-empty) input with no exact match and fuzzy enabled,
\* resolve returns the book with the lowest canon index among all books that
\* have a name, abbreviation or alias whose normalized form (lower-cased,
\* periods and spaces removed) starts with the normalized input, and
\* NotFound when there is no such book.
C3_FuzzyLowestIndex ==
    (/\ fn = "resolve_alias"
     /\ arg.fuzzy
     /\ arg.alias # <<>>
     /\ ~HasExactMatch(arg.alias))
    => LET books == BooksStartingWith(NormalizedForm(Strip(arg.alias)))
       IN  ret = IF books = {} THEN NoneStr
                 ELSE BOOK_ORDER[CHOOSE i \in books : \A j \in books : i <= j]

\* the functions that extract references from a text, and those of them
\* that read an attribute passage list
ExtractionPaths ==
    {"_parse_passage", "_parse_passage_string", "_parse_scripref_tags",
     "_parse_simple_refs", "_parse_plain_refs", "_parse_osis_crossrefs",
     "_extract_crossrefs"}
PassagePaths ==
    {"_parse_passage", "_parse_passage_string", "_parse_scripref_tags"}

\* the token names a book: the abbreviation table, the alias resolver or
\* the engine-token table knows it
Resolvable(token) ==
    \/ token \in DOMAIN _BOOK_ABBREVS
    \/ resolve_alias(token, TRUE) # NoneStr
    \/ token \in DOMAIN DIATHEKE_TO_CANON

\* references a and b name the same verses of the same book
SameReference(a, b) ==
    /\ AliasOrRaw(a.book) = AliasOrRaw(b.book)
    /\ a.chapter = b.chapter
    /\ a.verse = b.verse
    /\ a.verse_end = b.verse_end

\* the latest entry up to entry k that states its book and chapter
StatedBefore(entries, k) ==
    entries[SetMax({j \in 1..k : entries[j].book # NoneStr})]

\* the reference entry k of a passage list stands for
EntryReference(entries, k) ==
    CrossReference(StatedBefore(entries, k).book,
                   StatedBefore(entries, k).chapter,
                   entries[k].verse, entries[k].verse_end)

\* C5: in an attribute passage list (whose first entry states its book and
\* whose books all resolve), every comma-separated entry yields exactly one
\* reference, in list order, and an entry that omits the book and chapter
\* takes those of the most recently stated entry; "John 11:51,52, 1 John
\* 2:2" yields (John 11:51), (John 11:52), (1 John 2:2).
C5_EachEntryOneReference ==
    (/\ fn \in PassagePaths
     /\ arg.items[1].book # NoneStr
     /\ \A k \in 1..Len(arg.items) :
            arg.items[k].book # NoneStr => Resolvable(arg.items[k].book))
    => /\ Len(ret) = Len(arg.items)
       /\ \A k \in 1..Len(ret) :
              SameReference(ret[k], EntryReference(arg.items, k))

\* C6: in every extraction path, no returned reference has a book token
\* that cannot be resolved, and when the input holds such a token, every
\* reference of the input whose book does resolve is still returned.
C6_UnresolvableOmittedOthersKept ==
    fn \in ExtractionPaths =>
        /\ \A k \in 1..Len(ret) : Resolvable(ret[k].book)
        /\ (\E i \in 1..Len(arg.items) :
                /\ arg.items[i].book # NoneStr
                /\ ~Resolvable(arg.items[i].book))
           => \A i \in 1..Len(arg.items) :
                  (arg.items[i].book # NoneStr /\ Resolvable(arg.items[i].book))
                  => \E k \in 1..Len(ret) : SameReference(ret[k], arg.items[i])

\* C7: every CrossReference an extraction path returns has a book that is
\* one of the 66 canonical names of the canon table.
C7_BooksAreCanonical ==
    fn \in ExtractionPaths =>
        \A k \in 1..Len(ret) : book_index(ret[k].book) >= 0

\* the elements of s at the indices I, in order
AtIndices(s, I) ==
    [k \in 1..Cardinality(I) |->
        s[CHOOSE i \in I : Cardinality({j \in I : j < i}) = k - 1]]

\* of the pairs <<reference, source>>, the first of each distinct
\* (book, chapter, verse, verse_end), in first-seen order
FirstOfEachTuple(pairs) ==
    AtIndices(pairs, {i \in 1..Len(pairs) :
                         \A j \in 1..(i - 1) :
                             Key(pairs[j][1], 4) # Key(pairs[i][1], 4)})

RECURSIVE Concat(_)
\* the sequences of seqs, one after the other
Concat(seqs) ==
    IF seqs = <<>> THEN <<>> ELSE Head(seqs) \o Concat(Tail(seqs))

\* the references refs, each paired with its source
From(refs, source) == [k \in 1..Len(refs) |-> <<refs[k], source>>]

\* the references of the sources of a commentary text: its scripRef tags,
\* then its cross-reference notes
CommentarySources(text) ==
    LET tags == ReFindIter(_SCRIPREF_PATTERN, 1, text, 1)
        notes == ReFindIter(_XREF_NOTE_PATTERN, 1, text, 1)
    IN  Concat([k \in 1..Len(tags) |->
                   From(_parse_passage(Group(tags[k], text, 1)), <<>>)])
        \o Concat([k \in 1..Len(notes) |->
                      From(_parse_simple_refs(Group(notes[k], text, 1)), <<>>)])

\* the references of the modules a lookup queried, module after module
LookupSources ==
    LET modules == ModulesToQuery(crossref_backend, arg.sources)
    IN  Concat([k \in 1..Len(modules) |->
                   From(_lookup_module(<<>>, modules[k], arg.run), modules[k])])

\* C8: when references from several sources are merged for one verse, two
\* references are the same exactly when book, chapter, verse and verse_end
\* are all equal: the merged list holds the first occurrence of each
\* distinct 4-tuple, in first-seen order, and no later duplicate.
C8_MergeKeepsFirstOfEachTuple ==
    /\ fn = "lookup" => ret = FirstOfEachTuple(LookupSources)
    /\ fn = "_extract_crossrefs" =>
           From(ret, <<>>) = FirstOfEachTuple(CommentarySources(arg.text))

\* references a and b are equivalent: the same book, chapter and verse, and
\* the same verse_end, where no verse_end and a verse_end equal to the
\* verse both mean the single verse
Equivalent(a, b) ==
    LET end(r) == IF r.verse_end = NoneInt THEN r.verse ELSE r.verse_end
    IN  /\ a.book = b.book
        /\ a.chapter = b.chapter
        /\ a.verse = b.verse
        /\ end(a) = end(b)

\* C9: for every CrossReference r with a canonical book (and a verse_end,
\* if it has one, not before its verse), r.reference, extracted again by
\* the free-floating-note path (the reference pattern applied to the text
\* of a note), yields one reference, equivalent to r.
C9_ReferenceRoundTrip ==
    (/\ fn \in {"_parse_simple_refs", "_parse_osis_crossrefs"}
     /\ Len(arg.items) = 1
     /\ book_index(arg.items[1].book) >= 0
     /\ \/ arg.items[1].verse_end = NoneInt
        \/ arg.items[1].verse_end >= arg.items[1].verse)
    => /\ Len(ret) = 1
       /\ Equivalent(ret[1], arg.items[1])

\* C10: every CrossReference an extraction path returns has no verse_end or
\* a verse_end greater than or equal to its verse.
C10_VerseEndNotBeforeVerse ==
    fn \in ExtractionPaths =>
        \A k \in 1..Len(ret) :
            ret[k].verse_end = NoneInt \/ ret[k].verse_end >= ret[k].verse

\* a gap that is a label: at least 3 letters, and a period
IsLabel(gap) ==
    /\ Cardinality({i \in 1..Len(gap) : gap[i] \in AsciiLetters}) >= 3
    /\ \E i \in 1..Len(gap) : gap[i] = "."

\* the tags of items whose gap is a label
LabelTags(items) == {k \in 1..Len(items) : IsLabel(items[k].gap)}

\* the label a gap states: its text, trimmed, less the period that ends it
LabelText(gap) == RStripSet(Strip(gap), {"."})

\* the tag that opens group g, of the tags opening one
OpeningTag(opening, g) ==
    CHOOSE k \in opening : Cardinality({j \in opening : j < k}) = g - 1

\* the tags from tag k up to the next tag that opens a group
TagsOfGroup(items, opening, k) ==
    SelectSeq([j \in 1..Len(items) |-> j],
              LAMBDA j : j >= k /\ \A l \in opening : l > k => j < l)

\* the chapter and verse of each element of a list of references or tags
ChaptersAndVerses(l) == [k \in 1..Len(l) |-> <<l[k].chapter, l[k].verse>>]

RECURSIVE AllRefs(_)
\* the references of the groups, one group after the other
AllRefs(groups) ==
    IF groups = <<>> THEN <<>>
    ELSE Head(groups).refs \o AllRefs(Tail(groups))

\* C12: for a structured reference key with a range part, the reference
\* produced has verse_end equal to the verse of the trailing token, also
\* when the trailing token omits the book and the chapter (which are then
\* those of the opening reference).
C12_RangeSetsVerseEnd ==
    (fn = "_extract_keyword_groups" /\ LabelTags(arg.items) # {}) =>
        LET first == SetMin(LabelTags(arg.items))
            refs == AllRefs(ret)
        IN  /\ Len(refs) = Len(arg.items) - first + 1
            /\ \A k \in first..Len(arg.items) :
                  arg.items[k].range # "none" =>
                      /\ refs[k - first + 1].chapter = arg.items[k].chapter
                      /\ refs[k - first + 1].verse = arg.items[k].verse
                      /\ refs[k - first + 1].verse_end
                             = arg.items[k].verse_end

\* what the dialects extract from the raw text, before any fallback
Extracted(raw_text) ==
    Let(XmlStage(raw_text, ReSearch(_ENTRY_FREE, 1, raw_text, 1)), LAMBDA f :
        IF f.greek_word = <<>> /\ f.definition = <<>>
        THEN DialectStage(raw_text, f)
        ELSE f)

\* C13: whenever the dialects extract no definition from a raw dictionary
\* text (no dialect recognized, or the extraction inside the chosen dialect
\* failed), the parsed entry's definition is the tag-stripped,
\* entity-unescaped, whitespace-collapsed text and its headword,
\* transliteration and pronunciation are all empty
C13_FallbackEntry ==
    (fn = "_parse_entry" /\ Extracted(arg.raw_text).definition = <<>>)
        => /\ ret.definition = GenericFallback(arg.raw_text)
           /\ ret.greek_word = <<>>
           /\ ret.transliteration = <<>>
           /\ ret.pronunciation = <<>>

\* the run returned an entry verified to match the expected key
VerifiedRun(run) ==
    /\ ~run.proc.raised
    /\ GotCorrectEntry(arg.strongs_number, arg.number, run.proc)

\* the entry that comes from the run, absent when the run failed
EntryOfRun(run) ==
    IF run.proc.raised THEN NoEntry
    ELSE EntryOfProc(arg.module, arg.strongs_number, run.proc)

\* C14: a dictionary lookup for a prefixed key first queries the module with
\* the bare numeric key; the query with the prefixed key is made exactly
\* when the numeric attempt did not return an entry verified to match the
\* expected key, and the returned entry then comes from the prefixed attempt
\* (absent when that attempt also fails)
C14_NumericThenPrefixed ==
    (fn = "_lookup_single" /\ pc = "done")
        => /\ Len(diatheke_runs) \in {1, 2}
           /\ diatheke_runs[1].key = arg.number
           /\ (Len(diatheke_runs) = 2) <=> ~VerifiedRun(diatheke_runs[1])
           /\ Len(diatheke_runs) = 2
                  => /\ diatheke_runs[2].key = Upper(arg.strongs_number)
                     /\ ret = EntryOfRun(diatheke_runs[2])

\* the list without its k-th element
Without(list, k) == SubSeq(list, 1, k - 1) \o SubSeq(list, k + 1, Len(list))

\* the reference lookup asks the modules for
QueriedRef ==
    diatheke_token(AliasOrRaw(arg.book)) \o <<" ">> \o IntToStr(arg.chapter)
    \o <<":">> \o IntToStr(arg.verse)

\* the entries of lookup_strongs from the modules alone
EntriesOf(modules) ==
    lookup_strongs(dictionary_backend, arg.strongs_number, modules, arg.run)

\* the cross-references of lookup from the modules alone
RefsOf(modules) == LookupLoop(QueriedRef, modules, 1, arg.run, <<>>)

ReferencesOf(items) == SelectSeq(items, LAMBDA item : item.chapter # NoneInt)

RECURSIVE Flattened(_)
\* the lists of a list, one after the other
Flattened(lists) ==
    IF lists = <<>> THEN <<>> ELSE Head(lists) \o Flattened(Tail(lists))

\* the references of the listing parsed: those of the header's text after
\* "--", then those of the reference lines
ListedReferences == ReferencesOf(arg.inline \o Flattened(arg.lines))

\* C16: with snippets disabled, the number of hits of a search listing
\* equals the number of references in the header's text after "--" and on
\* the reference lines, the hits are in listing order, and the footer line
\* contributes no hit
C16_HitsAreListedReferences ==
    (fn = "_parse_search" /\ ~arg.fetch_snippets)
        => /\ Len(ret) = Len(ListedReferences)
           /\ \A i \in 1..Len(ret) :
                  /\ ret[i].book = SearchBook(ListedReferences[i].book)
                  /\ ret[i].chapter = ListedReferences[i].chapter
                  /\ ret[i].verse = ListedReferences[i].verse

\* a listing with a reference in its header, two reference lines and an
\* item that is no reference is parsed without snippets
C16_Witness ==
    /\ fn = "_parse_search"
    /\ ~arg.fetch_snippets
    /\ Len(ReferencesOf(arg.inline)) = 1
    /\ Len(arg.lines) = 2
    /\ Len(arg.lines[1]) = 2
    /\ Len(ReferencesOf(arg.lines[1])) = 1
    /\ Len(ReferencesOf(arg.lines[2])) = 1
    /\ Len(ret) = 3
    /\ ret[1].book # ret[3].book

\* the books are ranked by the class Class gives them: at most limit books,
\* a book of a lower class before every book of a higher one, the books of
\* a class in canon order; for an empty query, the first limit books of the
\* canon
RankedBy(Class(_, _)) ==
    fn = "search_books"
        => /\ Len(ret) <= arg.limit
           /\ Lower(Strip(arg.query)) = <<>>
                  => ret = [k \in 1..Len(ret) |-> _CANON_TABLE[k]]
                     /\ (Len(ret) = arg.limit
                         \/ Len(ret) = Len(_CANON_TABLE))
           /\ Lower(Strip(arg.query)) # <<>>
                  => \A i, j \in 1..Len(ret) :
                         i < j
                             => LET ci == Class(ret[i],
                                                Lower(Strip(arg.query)))
                                    cj == Class(ret[j],
                                                Lower(Strip(arg.query)))
                                IN  /\ ci <= cj
                                    /\ ci = cj
                                           => book_index(ret[i].name)
                                              < book_index(ret[j].name)

\* 0 when the name or the abbreviation of the book starts with the query, 1
\* when the book matches by substring only
ByNameOrAbbr(book, needle) ==
    IF StartsWith(Lower(book.name), needle)
       \/ StartsWith(Lower(book.abbr), needle)
    THEN 0 ELSE 1

\* 0 when the name, the abbreviation or an alias of the book starts with
\* the query, 1 when the book matches by substring only
ByNameAbbrOrAlias(book, needle) ==
    IF \E h \in Haystack(book) : StartsWith(h, needle) THEN 0 ELSE 1

C18_CountAndActiveIndexValid ==
    /\ count(tab_manager) >= 1
    /\ count(tab_manager) <= MAX_TABS
    /\ tab_manager._active_index >= 0
    /\ tab_manager._active_index < count(tab_manager)

\* MAX_TABS tabs are open, the last of them active, and one more was asked
\* for
C18_Witness ==
    /\ fn = "new_tab"
    /\ ret = -1
    /\ count(tab_manager) = MAX_TABS
    /\ tab_manager._active_index = MAX_TABS - 1

\* the call made by this step was refused: new_tab returned -1, or close_tab
\* or switch_to returned False
Refused ==
    /\ fn = "idle"
    /\ \/ fn' = "new_tab" /\ ret' = -1
       \/ fn' \in {"close_tab", "switch_to"} /\ ret' = FALSE

\* the refusal the claim names for the call made by this step: MAX_TABS tabs
\* are open, one tab remains, or the index is that of no tab
MustRefuse ==
    /\ fn = "idle"
    /\ \/ fn' = "new_tab" /\ count(tab_manager) = MAX_TABS
       \/ fn' = "close_tab" /\ count(tab_manager) = 1
       \/ /\ fn' = "close_tab"
          /\ arg'.index # NoIndex
          /\ arg'.index[1] \notin 0..(count(tab_manager) - 1)
       \/ /\ fn' = "switch_to"
          /\ arg'.index \notin 0..(count(tab_manager) - 1)

\* C19: a refused operation (new_tab at MAX_TABS returning -1, close_tab
\* returning False because one tab remains or the index is out of range,
\* switch_to returning False for an index out of range) leaves the tab list
\* and the active index unchanged; and the operation is refused in each of
\* these cases
C19_RefusedLeavesUnchanged ==
    [][/\ Refused => tab_manager' = tab_manager
       /\ MustRefuse => Refused]_vars

\* a close_tab with an index beyond the tabs was refused while several tabs
\* were open and another tab than the first was active
C19_Witness ==
    /\ fn = "close_tab"
    /\ ret = FALSE
    /\ arg.index # NoIndex
    /\ count(tab_manager) > 1
    /\ arg.index[1] >= count(tab_manager)
    /\ tab_manager._active_index > 0

\* the list without its element at the 0-based index
Removed(list, index) ==
    [k \in 1..(Len(list) - 1) |-> IF k <= index THEN list[k] ELSE list[k + 1]]

\* the index closed by the successful close_tab of this step
ClosedIndex ==
    IF arg'.index = NoIndex THEN tab_manager._active_index ELSE arg'.index[1]

\* this step is a close_tab that returned True
Closed == fn = "idle" /\ fn' = "close_tab" /\ ret' = TRUE

\* the 0-based index, after the tab at closed is removed, of the tab that was
\* at index before
IndexAfter(index, closed) == IF closed < index THEN index - 1 ELSE index

\* C20: a successful close_tab removes the tab at the index; when that tab
\* was not the active one the same tab is still active (the active index one
\* lower when the closed tab preceded it), and when it was the active one the
\* tab that followed it is active, or the new last tab when the closed tab
\* was the last
C20_ActiveAfterClose ==
    [][Closed =>
        /\ tab_manager'._tabs = Removed(tab_manager._tabs, ClosedIndex)
        /\ ClosedIndex # tab_manager._active_index =>
               tab_manager'._active_index =
                   IndexAfter(tab_manager._active_index, ClosedIndex)
        /\ /\ ClosedIndex = tab_manager._active_index
           /\ ClosedIndex < count(tab_manager) - 1
           => tab_manager'._active_index =
                  IndexAfter(ClosedIndex + 1, ClosedIndex)
        /\ /\ ClosedIndex = tab_manager._active_index
           /\ ClosedIndex = count(tab_manager) - 1
           => tab_manager'._active_index = count(tab_manager') - 1]_vars

\* the first tab of several was closed while a later tab, which differs from
\* its neighbours, was active: that tab is active still, one index lower
C20_Witness ==
    /\ fn = "close_tab"
    /\ ret = TRUE
    /\ arg.index = <<0>>
    /\ count(tab_manager) >= 3
    /\ tab_manager._active_index = 1
    /\ tab_manager._tabs[2] # tab_manager._tabs[1]
    /\ tab_manager._tabs[2] # tab_manager._tabs[3]

\* the names of the fields that to_dict writes
SerializedFields ==
    {"name",
     "book",
     "chapter",
     "verse",
     "module",
     "in_parallel_mode",
     "in_study_mode",
     "in_strongs_mode",
     "in_crossref_mode",
     "in_jumplist_mode",
     "secondary_module",
     "right_book",
     "right_chapter",
     "panes_linked",
     "active_pane",
     "study_commentary_module",
     "study_active_pane",
     "study_include_bible_xrefs",
     "strongs_filter",
     "footnotes_filter",
     "crossref_pane_focused",
     "strongs_pane_focused"}

\* the tabs of the two lists are equal field by field, the jumplist aside
SameSerializedTabs(tabs, others) ==
    /\ Len(tabs) = Len(others)
    /\ \A k \in 1..Len(tabs) :
           \A name \in SerializedFields : tabs[k][name] = others[k][name]

\* C21: for every TabManager state reachable from a new manager,
\* from_list(to_list(), active_index) yields a manager with the same number
\* of tabs, the same active index, and tabs equal field by field in the same
\* order, except for the jumplist, which is not serialized and is new in
\* every tab read
C21_ListRoundTrip ==
    fn = "from_list" =>
        /\ count(ret) = count(tab_manager)
        /\ ret._active_index = tab_manager._active_index
        /\ SameSerializedTabs(ret._tabs, tab_manager._tabs)
        /\ \A k \in 1..count(ret) : ret._tabs[k]._jumplist_ref = JumpList

\* a manager of several tabs, used and new ones, with another tab than the
\* first active, was written and read
C21_Witness ==
    /\ fn = "from_list"
    /\ count(tab_manager) >= 3
    /\ tab_manager._active_index >= 1
    /\ \E k \in 1..count(tab_manager) :
           /\ tab_manager._tabs[k] = UsedTabState
           /\ ret._tabs[k] # UsedTabState
    /\ \E k \in 1..count(tab_manager) : tab_manager._tabs[k] = DefaultTabState

\* the full command name of every alias, the tab commands' among them
FullNames ==
    DictOf(<<
        <<<<"q">>, <<"q", "u", "i", "t">>>>, <<<<"q", "!">>, <<"q", "u", "i", "t", "!">>>>, <<<<"w">>, <<"w", "r", "i", "t", "e">>>>,
        <<<<"e">>, <<"e", "d", "i", "t">>>>, <<<<"h">>, <<"h", "e", "l", "p">>>>, <<<<"m", "o", "d">>, <<"m", "o", "d", "u", "l", "e">>>>,
        <<<<"m">>, <<"m", "o", "d", "u", "l", "e">>>>, <<<<"b", "m">>, <<"b", "o", "o", "k", "m", "a", "r", "k">>>>, <<<<"e", "x", "p">>, <<"e", "x", "p", "o", "r", "t">>>>,
        <<<<"p">>, <<"p", "a", "r", "a", "l", "l", "e", "l">>>>, <<<<"t", "n">>, <<"t", "a", "b", "n", "e", "w">>>>, <<<<"t", "c">>, <<"t", "a", "b", "c", "l", "o", "s", "e">>>>
    >>)

\* the first word of a command text, in lower case
FirstWord(command_str) ==
    IF SplitWs(command_str) = <<>> THEN <<>>
    ELSE Lower(SplitWs(command_str)[1])

\* the elements of a list
Elements(list) == {list[k] : k \in 1..Len(list)}

\* C22: parse_command resolves every command alias to its full command
\* name, including tn to tabnew and tc to tabclose, and get_command_names
\* contains tabnew, tabclose and tabname
C22_AliasesResolve ==
    /\ /\ fn = "parse_command"
       /\ FirstWord(arg.command_str) \in DOMAIN FullNames
       => ret.name = FullNames[FirstWord(arg.command_str)]
    /\ fn = "get_command_names" =>
           {<<"t", "a", "b", "n", "e", "w">>, <<"t", "a", "b", "c", "l", "o", "s", "e">>, <<"t", "a", "b", "n", "a", "m", "e">>} \subseteq Elements(ret)

\* C22, for the aliases that COMMAND_ALIASES holds: each resolves to its
\* full command name, whatever its case and whatever follows it
C22_ListedAliasesResolve ==
    /\ fn = "parse_command"
    /\ FirstWord(arg.command_str) \in DOMAIN COMMAND_ALIASES
    => ret.name = FullNames[FirstWord(arg.command_str)]

\* the position that the back or record call in progress was given
GivenEntry == JumpEntry(arg.book, arg.chapter, arg.verse)

\* the cursor of the JumpList is on its last entry
CursorAtEnd(self) ==
    self._entries # <<>> /\ self._cursor = Len(self._entries) - 1

\* C24: if back(current) is called while the cursor is at the end of the
\* list and it returns an entry, then an immediately following forward()
\* returns an entry equal to the position that was passed as current.
C24_ForwardAfterBack ==
    [][(fn = "idle" /\ fn' = "back" /\ CursorAtEnd(jumplist) /\ ret' # NoJump)
       => forward(jumplist').value = <<GivenEntry'>>]_vars

\* back was called at the end of a list whose last entry is not the current
\* position, and it has returned an entry
C24_Witness ==
    /\ fn = "back"
    /\ ret # NoJump
    /\ jumplist._cursor = Len(jumplist._entries) - 2
    /\ jumplist._entries[Len(jumplist._entries)] = GivenEntry
    /\ jumplist._entries[Len(jumplist._entries) - 1] # GivenEntry

\* the entries of the list up to and including the one under the cursor
UpToCursor(self) == SubSeq(self._entries, 1, self._cursor + 1)

\* C25: after any record call in any jumplist state, all entries that were
\* after the cursor are gone, the recorded location is the last entry, the
\* cursor points at it, and an immediately following forward() returns
\* nothing.  What is before the recorded location is the end of what was
\* up to the cursor, all of it while there is room.
C25_RecordTruncates ==
    [][(fn = "idle" /\ fn' = "record")
       => /\ jumplist'._entries # <<>>
          /\ jumplist'._entries[Len(jumplist'._entries)] = GivenEntry'
          /\ jumplist'._cursor = Len(jumplist'._entries) - 1
          /\ forward(jumplist').value = NoJump
          /\ Len(jumplist'._entries) =
                 (IF Len(UpToCursor(jumplist)) < MAX_ENTRIES
                  THEN Len(UpToCursor(jumplist)) + 1 ELSE MAX_ENTRIES)
          /\ SubSeq(jumplist'._entries, 1, Len(jumplist'._entries) - 1) =
                 ListTail(UpToCursor(jumplist), Len(jumplist'._entries) - 1)
      ]_vars

\* record was called on a list that had another location under its cursor,
\* and has left the recorded one after it as the last entry
C25_Witness ==
    /\ fn = "record"
    /\ Len(jumplist._entries) = 2
    /\ jumplist._entries[2] = GivenEntry
    /\ jumplist._entries[1] # GivenEntry
    /\ jumplist._cursor = 1

\* the cursor is -1 exactly when there are no entries, and otherwise is a
\* valid index into the entries
CursorValid(self) ==
    IF self._entries = <<>> THEN self._cursor = -1
    ELSE self._cursor \in 0..(Len(self._entries) - 1)

\* C27: starting from a new JumpList, after any sequence of record, back,
\* forward and jump_to calls, the cursor is -1 exactly when there are no
\* entries and otherwise is a valid index into the entries; a back, forward
\* or jump_to call that returns nothing leaves the cursor where it was.
C27_CursorValid ==
    /\ [](CursorValid(jumplist))
    /\ [][(fn = "idle" /\ fn' \in {"back", "forward", "jump_to"}
           /\ ret' = NoJump)
          => jumplist'._cursor = jumplist._cursor]_vars

\* jump_to was called with an index that the list does not have, and the
\* list has entries
C27_Witness ==
    /\ fn = "jump_to"
    /\ ret = NoJump
    /\ arg.index >= Len(jumplist._entries)
    /\ Len(jumplist._entries) >= 2
    /\ jumplist._cursor = 0

\* C28: starting from a new JumpList, after any sequence of record, back,
\* forward and jump_to calls, the number of entries never exceeds
\* MAX_ENTRIES (100).
C28_AtMostMaxEntries == Len(jumplist._entries) <= MAX_ENTRIES

\* the current verse of the view is the verse of one of its segments
OnSegment(self) ==
    \E k \in DOMAIN self._segments :
        self._segments[k].verse = self._current_verse

\* C30: whenever a BibleView holds a non-empty list of segments, its
\* current verse is the verse number of one of those segments, after any
\* sequence of update_content, set_current_verse/move_to_verse, next_verse,
\* prev_verse, first_verse and last_verse calls (including chapters whose
\* verse numbers have gaps).
C30_CurrentVerseOnSegment ==
    bible_view._segments # <<>> => OnSegment(bible_view)

\* the same of every call but set_current_verse and move_to_verse, and of
\* these two when the verse asked for is on display or outside the range
C30_OnSegmentUnlessSetIntoGap ==
    [][(/\ fn = "idle"
        /\ bible_view._segments # <<>> => OnSegment(bible_view)
        /\ bible_view'._segments # <<>>
        /\ \/ fn' \notin {"set_current_verse", "move_to_verse"}
           \/ \E k \in DOMAIN bible_view._segments :
                  bible_view._segments[k].verse = arg'.verse
           \/ arg'.verse < MinOf(VersesOf(bible_view'._segments))
           \/ arg'.verse > MaxOf(VersesOf(bible_view'._segments)))
       => OnSegment(bible_view')]_vars

\* the handlers of the small movements: j, k, Ctrl+D, Ctrl+U
SmallMovements ==
    {"action_next_verse", "action_prev_verse", "action_page_down",
     "action_page_up"}

\* C23: small movements are not recorded: in every application state, a
\* next-verse or previous-verse action (j/k) or a page-down/page-up action
\* (Ctrl+D/U) leaves the jumplist entries and cursor unchanged.
C23_SmallMovementsNotRecorded ==
    [][(fn = "idle" /\ fn' \in SmallMovements)
       => app'._jumplist = app._jumplist]_vars

\* the same of k, Ctrl+D and Ctrl+U, and of j when the active view has a
\* verse after the current one
C23_NotRecordedWithinChapter ==
    [][(/\ fn = "idle"
        /\ fn' \in SmallMovements
        /\ fn' = "action_next_verse" => next_verse(_get_active_view(app)).value)
       => app'._jumplist = app._jumplist]_vars

\* no entry of the list equals its predecessor
NoEqualAdjacent(_entries) ==
    \A k \in 2..Len(_entries) : _entries[k] # _entries[k - 1]

\* C29: the jumplist never holds two equal adjacent entries: after any
\* sequence of navigation actions (each recording the position it leaves)
\* interleaved with jump-back and jump-forward, no entry equals its
\* predecessor, so a jump-back that returns an entry never returns the
\* position the user is already at.
C29_NoEqualAdjacentEntries ==
    app # NoApp => NoEqualAdjacent(app._jumplist._entries)

\* the position the user is at
CurrentPosition(self) ==
    JumpEntry(self._current_book, self._current_chapter, CurrentVerse(self))

\* a jump-back that moves the cursor of the jumplist leaves the user at
\* another position than before
C29_JumpBackMoves ==
    [][(/\ fn = "idle"
        /\ fn' = "action_jump_back"
        /\ app'._jumplist._cursor < app._jumplist._cursor)
       => CurrentPosition(app') # CurrentPosition(app)]_vars

\* C26: the main modes are mutually exclusive: after any sequence of
\* parallel-view toggles, study-mode toggles, tab creations and tab
\* switches, the application (and every saved TabState) never has parallel
\* mode and study mode active at the same time.
C26_ParallelAndStudyExclusive ==
    app # NoApp =>
        /\ ~(app._in_parallel_mode /\ app._in_study_mode)
        /\ \A k \in DOMAIN app._tab_manager._tabs :
               ~(/\ app._tab_manager._tabs[k].in_parallel_mode
                 /\ app._tab_manager._tabs[k].in_study_mode)

\* a study-mode toggle that enters study mode leaves parallel mode off
C26_StudyTurnsParallelOff ==
    [][(/\ fn = "idle"
        /\ fn' = "action_toggle_study"
        /\ ~app._in_study_mode
        /\ app'._in_study_mode)
       => ~app'._in_parallel_mode]_vars

====
